---- MODULE Spec2Model ----
(***************************************************************************)
(* Model of the Overwatch Terminal x402 mainnet agent (scripts/x402-agent) *)
(* : the per-endpoint payment flow x402Request and the session loop of     *)
(* main.  Every await of the program is one action; the merchant, the      *)
(* ledger node and the environment are the nondeterministic inputs.        *)
(*                                                                         *)
(* Strings that the program converts (amounts, env values) are sequences   *)
(* of one-character strings.  A JavaScript number is <<v>>, NaN is <<>>.   *)
(* Balances and the balance floor are whole XRP.                           *)
(***************************************************************************)
EXTENDS Integers, Sequences, FiniteSets, TLC

\* ---------------------------------------------------------------------------
\* JavaScript numbers and string conversions
\* ---------------------------------------------------------------------------

NaN == <<>>

Num(v) == <<v>>

JsAdd(a, b) == IF a = NaN \/ b = NaN THEN NaN ELSE Num(a[1] + b[1])

JsGt(a, b) == a # NaN /\ b # NaN /\ a[1] > b[1]

JsLt(a, b) == a # NaN /\ b # NaN /\ a[1] < b[1]

JsLe(a, b) == a # NaN /\ b # NaN /\ a[1] <= b[1]

Digits == {"0", "1", "2", "3", "4", "5", "6", "7", "8", "9"}

RECURSIVE DigitsValue(_)
DigitsValue(s) ==
  LET DigitVal(c) ==
        CASE c = "0" -> 0 [] c = "1" -> 1 [] c = "2" -> 2 [] c = "3" -> 3
          [] c = "4" -> 4 [] c = "5" -> 5 [] c = "6" -> 6 [] c = "7" -> 7
          [] c = "8" -> 8 [] c = "9" -> 9
  IN IF s = <<>> THEN 0
     ELSE DigitsValue(SubSeq(s, 1, Len(s) - 1)) * 10 + DigitVal(s[Len(s)])

RECURSIVE DigitPrefix(_)
DigitPrefix(s) ==
  IF s = <<>> \/ s[1] \notin Digits THEN <<>>
  ELSE <<s[1]>> \o DigitPrefix(Tail(s))

RECURSIVE TrimLeft(_)
TrimLeft(s) == IF s # <<>> /\ s[1] = " " THEN TrimLeft(Tail(s)) ELSE s

\* parseInt(s, 10): leading blanks, an optional sign, the longest digit prefix
ParseInt(s) ==
  LET t   == TrimLeft(s)
      neg == t # <<>> /\ t[1] = "-"
      u   == IF t # <<>> /\ t[1] \in {"+", "-"} THEN Tail(t) ELSE t
      d   == DigitPrefix(u)
  IN  IF d = <<>> THEN NaN
      ELSE IF neg THEN Num(0 - DigitsValue(d)) ELSE Num(DigitsValue(d))

\* s.replace(/\D/g, '')
StripNonDigits(s) == SelectSeq(s, LAMBDA c : c \in Digits)

\* ---------------------------------------------------------------------------
\* Configuration
\* ---------------------------------------------------------------------------

ENDPOINTS == <<"/api/v1/premium-analysis", "/api/v1/bear-case", "/api/v1/stress-report">>

\* CAIP-2 identifier of the ledger the agent pays on
NETWORK == "xrpl:0"

Unset == <<"undefined">>

DefaultBalanceFloor == <<"1", "1">>

DefaultSessionCap == <<"1", "0", "0", "0", "0">>

DefaultMaxSingle == <<"5", "0", "0", "0">>

\* env ?? fallback
OrDefault(env, fallback) == IF env = Unset THEN fallback ELSE env

\* parseFloat(process.env.X402_BALANCE_FLOOR ?? '11'), whole XRP
ParseBalanceFloor(env) == ParseInt(OrDefault(env, DefaultBalanceFloor))

\* parseInt((process.env.X402_SESSION_CAP_DROPS ?? '10000').replace(/\D/g, ''), 10)
ParseSessionCap(env) == ParseInt(StripNonDigits(OrDefault(env, DefaultSessionCap)))

\* parseInt((process.env.X402_MAX_SINGLE_DROPS ?? '5000').replace(/\D/g, ''), 10)
ParseMaxSingle(env) == ParseInt(StripNonDigits(OrDefault(env, DefaultMaxSingle)))

\* process.env as far as the guardrails read it
Env(floor, cap, max) ==
  [X402_BALANCE_FLOOR |-> floor, X402_SESSION_CAP_DROPS |-> cap, X402_MAX_SINGLE_DROPS |-> max]

\* ---------------------------------------------------------------------------
\* Inputs: what the merchant and the ledger node may answer
\* ---------------------------------------------------------------------------

\* one entry of accepts[] in the PAYMENT-REQUIRED body; "" is an absent payTo,
\* extra.invoiceId is a string or <<>> when absent or empty, maxTimeoutSeconds
\* is <<>> when the terms omit it
Terms(amount, payTo, invoiceId, timeout) ==
  [amount |-> amount, payTo |-> payTo, invoiceId |-> invoiceId, maxTimeoutSeconds |-> timeout]

NoTerms == Terms(<<>>, "", <<>>, <<>>)

\* the invoice ids the merchant issues, a fresh one with every challenge
IssuedInvoiceIds == << <<"3", "F">>, <<"3", "E">>, <<"A", "0">> >>

\* answer to the unauthenticated GET: the fetch rejects, or a status arrives
\* with or without a PAYMENT-REQUIRED header
Res1(net, status, hdr, accepts, terms) ==
  [net |-> net, status |-> status, hdr |-> hdr, accepts |-> accepts, terms |-> terms]

ChallengeResponses(invoiceId) ==
  LET OfferAmounts ==
        { <<"4", "0", "0", "0">>, <<"5", "0", "0", "0">>, <<"6", "0", "0", "0">>,
          <<"1", ".", "5">>, <<"f", "r", "e", "e">> }
  IN
  { Res1("throw", 0, "none", FALSE, NoTerms),
    Res1("ok", 500, "none", FALSE, NoTerms),
    Res1("ok", 200, "json", TRUE, Terms(<<"6", "0", "0", "0">>, "rMerchant", invoiceId, <<>>)),
    Res1("ok", 500, "json", TRUE, Terms(<<"4", "0", "0", "0">>, "rMerchant", invoiceId, <<>>)),
    Res1("ok", 402, "none", FALSE, NoTerms),
    Res1("ok", 402, "garbage", FALSE, NoTerms),
    Res1("ok", 402, "json", FALSE, NoTerms),
    Res1("ok", 402, "json", TRUE, Terms(<<"4", "0", "0", "0">>, "rMerchant", <<>>, <<>>)),
    Res1("ok", 402, "json", TRUE, Terms(<<"4", "0", "0", "0">>, "", invoiceId, <<>>)) }
  \cup { Res1("ok", 402, "json", TRUE, Terms(a, "rMerchant", invoiceId, <<>>)) : a \in OfferAmounts }

\* a JSON value found at data.payment.amount_drops
Undefined == [t |-> "undefined", n |-> 0, s |-> <<>>]

StringVal(s) == [t |-> "string", n |-> 0, s |-> s]

\* answer to the retried GET: the fetch rejects, or a status arrives; on 200
\* the body parses as JSON or not, and the PAYMENT-RESPONSE header is absent
\* ("none"), decodes to an object with a string transaction ("valid"), does
\* not decode ("garbage"), or carries a non-string transaction ("badtx")
RetryResponses ==
  LET Res2(net, status, jsonOk, amount, pr) ==
        [net |-> net, status |-> status, jsonOk |-> jsonOk, amount_drops |-> amount, pr |-> pr]
      NumberVal(n) == [t |-> "number", n |-> n, s |-> <<>>]
      ReportedAmounts ==
        { Undefined, NumberVal(4000),
          StringVal(<<"4", "0", "0", "0">>), StringVal(<<"5", "0", "0", "0">>),
          StringVal(<<"-", "5", "0", "0", "0">>), StringVal(<<"n", "/", "a">>) }
  IN
  { Res2("throw", 0, FALSE, Undefined, "none"),
    Res2("ok", 500, FALSE, Undefined, "none"),
    Res2("ok", 200, FALSE, Undefined, "none"),
    Res2("ok", 200, TRUE, StringVal(<<"4", "0", "0", "0">>), "valid"),
    Res2("ok", 200, TRUE, StringVal(<<"4", "0", "0", "0">>), "garbage"),
    Res2("ok", 200, TRUE, StringVal(<<"4", "0", "0", "0">>), "badtx") }
  \cup { Res2("ok", 200, TRUE, a, "none") : a \in ReportedAmounts }

\* client.getXrpBalance: rejects ("throw") or returns a balance string, which
\* parseFloat reads as a number or as NaN
MaxBalanceXrp == 11

BalanceReplies == {NaN} \cup { Num(b) : b \in 10..MaxBalanceXrp }

\* client.autofill: rejects or returns the transaction with this type
AutofillTypes == {"Payment", "AccountSet"}

\* validated ledger height reported by server_info
LedgerHeight == 100

\* ---------------------------------------------------------------------------
\* x402Request, the code between two awaits as one operator
\* ---------------------------------------------------------------------------

DEFAULT_TIMEOUT_SECONDS == 300

WARN_BALANCE == 15

ERROR_BALANCE == 2

LEDGER_INTERVAL_SECONDS == 4

LEDGER_MARGIN == 2

\* how a stretch of x402Request ends: with a throw (name is the error's name)
\* or at the next await with the payment terms in hand
Throw(name, msg) == [name |-> name, msg |-> msg, req |-> NoTerms]

Failed(msg) == Throw("Error", msg)

Guarded(msg) == Throw("GuardrailError", msg)

Pay(req) == [name |-> "", msg |-> "", req |-> req]

\* variant: only a success status is refused (if (res1.ok) throw ...)
StatusIsOk(status) == status \in 200..299

\* res1.status !== 402
NotPaymentRequired(status) == status # 402

\* variant: the invoiceId check is left out
InvoiceIdUnchecked(terms) == FALSE

\* !invoiceId
NoInvoiceId(terms) == terms.invoiceId = <<>>

\* decodeX402Header: JSON.parse(Buffer.from(b64, 'base64').toString('utf8'))
DecodeThrows(hdr) == hdr # "json"

\* variant: no offer is too large
PerTxNeverDenied(drops, maxSingleDrops) == FALSE

\* guardrail: per-transaction max
PerTxDenied(drops, maxSingleDrops) == JsGt(drops, maxSingleDrops)

\* variant: the cap is compared with the offer alone, not the running total
CapDeniedIgnoringSpent(spent, drops, sessionCapDrops) == JsGt(drops, sessionCapDrops)

\* guardrail: session spending cap
CapDenied(spent, drops, sessionCapDrops) == JsGt(JsAdd(spent, drops), sessionCapDrops)

\* steps 1-2 after the first response has arrived, up to the call of autofill
AfterChallenge(res1, spent, sessionCapDrops, maxSingleDrops) ==
  IF res1.net = "throw" THEN Failed("fetch failed")
  ELSE IF NotPaymentRequired(res1.status) THEN Failed("Expected 402")
  ELSE IF res1.hdr = "none" THEN Failed("Missing PAYMENT-REQUIRED header")
  ELSE IF DecodeThrows(res1.hdr) THEN Failed("Unexpected token")
  ELSE IF ~res1.accepts THEN Failed("No accepted payment terms in 402 body")
  ELSE IF NoInvoiceId(res1.terms) THEN Failed("No invoiceId in payment requirements")
  ELSE
    LET amount == StripNonDigits(res1.terms.amount)
        req    == [res1.terms EXCEPT !.amount = amount]
        drops  == ParseInt(amount)
    IN  IF amount = <<>> THEN Failed("Payment amount empty after sanitizing")
        ELSE IF PerTxDenied(drops, maxSingleDrops) THEN Guarded("exceeds per-tx max")
        ELSE IF CapDenied(spent, drops, sessionCapDrops) THEN Guarded("session spending cap reached")
        ELSE IF req.payTo = "" THEN Failed("Cannot read properties of undefined")
        ELSE Pay(req)

\* variant: the filled transaction is signed whatever its type
TypeNeverDenied(filled) == FALSE

\* guardrail: payment-type whitelist
TypeDenied(filled) == filled.TransactionType # "Payment"

CeilDiv(a, b) == (a + b - 1) \div b

\* variant: the timeout is converted to ledgers with Math.floor
LastLedgerRoundedDown(currentLedger, req) ==
  LET t == IF req.maxTimeoutSeconds = <<>> THEN DEFAULT_TIMEOUT_SECONDS
           ELSE req.maxTimeoutSeconds[1]
  IN  currentLedger + (t \div LEDGER_INTERVAL_SECONDS) + LEDGER_MARGIN

\* currentLedger + Math.ceil((req.maxTimeoutSeconds ?? 300) / 4) + 2
LastLedger(currentLedger, req) ==
  LET t == IF req.maxTimeoutSeconds = <<>> THEN DEFAULT_TIMEOUT_SECONDS
           ELSE req.maxTimeoutSeconds[1]
  IN  currentLedger + CeilDiv(t, LEDGER_INTERVAL_SECONDS) + LEDGER_MARGIN

\* variant: whatever the answer, x402Request returns
RetryNeverThrows(res2) == FALSE

\* step 5 after the second response has arrived: does x402Request return
RetryThrows(res2) ==
  \/ res2.net = "throw"
  \/ res2.status # 200
  \/ ~res2.jsonOk
  \/ res2.pr \in {"garbage", "badtx"}

RetryError(res2) ==
  IF res2.net = "throw" THEN "fetch failed"
  ELSE IF res2.status # 200 THEN "Payment rejected"
  ELSE IF ~res2.jsonOk \/ res2.pr = "garbage" THEN "Unexpected token"
  ELSE "txHash.slice is not a function"

\* result.data?.payment?.amount_drops ?? '?'
ReportedDrops(res2) ==
  IF res2.amount_drops = Undefined THEN StringVal(<<"?">>) ELSE res2.amount_drops

\* typeof drops === 'string' && drops !== '?' ? parseInt(drops, 10) : 0
DropsInt(drops) ==
  IF drops.t = "string" /\ drops # StringVal(<<"?">>) THEN ParseInt(drops.s) ELSE Num(0)

\* parseFloat(await client.getXrpBalance(address)) || 0
CheckBalance(reply) == IF reply = NaN \/ reply = Num(0) THEN Num(0) ELSE reply

\* variant: no balance is too low
BelowFloorNever(balance, floor) == FALSE

\* guardrail: balance floor
BelowFloor(balance, floor) == JsLt(balance, floor)

\* variant: the session cap denies what stays under it
GuardrailVerdictCapInverted(amount, balance, spent, floor, cap, max) ==
  LET drops == ParseInt(StripNonDigits(amount)) IN
  IF BelowFloor(balance, floor) THEN "balance below floor"
  ELSE IF PerTxDenied(drops, max) THEN "exceeds per-tx max"
  ELSE IF JsLt(JsAdd(spent, drops), cap) THEN "session spending cap reached"
  ELSE ""

\* the guardrail checks an offer of this amount meets, in the order the agent
\* makes them: the floor in main before the request, then per-transaction max
\* and session cap in x402Request; the reason of the denial, "" when all pass
GuardrailVerdict(amount, balance, spent, floor, cap, max) ==
  LET drops == ParseInt(StripNonDigits(amount)) IN
  IF BelowFloor(balance, floor) THEN "balance below floor"
  ELSE IF PerTxDenied(drops, max) THEN "exceeds per-tx max"
  ELSE IF CapDenied(spent, drops, cap) THEN "session spending cap reached"
  ELSE ""

\* ---------------------------------------------------------------------------
\* The x402 header codec: canonicalJSON, encodeX402Header, decodeX402Header
\* (the same code in both agents). Text is a sequence of characters, a Buffer
\* a sequence of bytes.
\* ---------------------------------------------------------------------------

\* JavaScript values as JSON knows them: b is the content of a boolean, n of a
\* number, s of a string, items of an array; an object has keys and items, in
\* insertion order
JNull == [t |-> "null", b |-> FALSE, n |-> 0, s |-> <<>>, keys |-> <<>>, items |-> <<>>]

JBool(b) == [JNull EXCEPT !.t = "boolean", !.b = b]

JNum(n) == [JNull EXCEPT !.t = "number", !.n = n]

JStr(s) == [JNull EXCEPT !.t = "string", !.s = s]

JArr(items) == [JNull EXCEPT !.t = "array", !.items = items]

\* a property: key and value
Prop(k, v) == [k |-> k, v |-> v]

\* the object with these properties
JObj(props) ==
  [JNull EXCEPT !.t = "object",
                !.keys = [i \in DOMAIN props |-> props[i].k],
                !.items = [i \in DOMAIN props |-> props[i].v]]

\* the properties of an object
Props(obj) == [i \in DOMAIN obj.keys |-> Prop(obj.keys[i], obj.items[i])]

\* the characters U+0020..U+007E in code order, two of them by name
Printable ==
  << " ", "!", "\"", "#", "$", "%", "&", "apostrophe", "(", ")", "*", "+", ",", "-", ".", "/",
     "0", "1", "2", "3", "4", "5", "6", "7", "8", "9", ":", ";", "<", "=", ">", "?",
     "@", "A", "B", "C", "D", "E", "F", "G", "H", "I", "J", "K", "L", "M", "N", "O",
     "P", "Q", "R", "S", "T", "U", "V", "W", "X", "Y", "Z", "[", "\\", "]", "^", "_",
     "grave", "a", "b", "c", "d", "e", "f", "g", "h", "i", "j", "k", "l", "m", "n", "o",
     "p", "q", "r", "s", "t", "u", "v", "w", "x", "y", "z", "{", "|", "}", "~" >>

\* characters outside that range, by name: line feed, e with acute accent, the
\* euro sign, an unpaired high surrogate, and U+FFFD
Named == { <<"LF", 10>>, <<"e-acute", 233>>, <<"euro", 8364>>, <<"hi-surrogate", 55296>>,
           <<"replacement", 65533>> }

\* UTF-16 code unit of a character
CodeUnit(c) ==
  IF \E n \in Named : n[1] = c
  THEN (CHOOSE n \in Named : n[1] = c)[2]
  ELSE 31 + (CHOOSE i \in DOMAIN Printable : Printable[i] = c)

\* String.fromCharCode, U+FFFD for what the model has no character for
FromCodeUnit(u) ==
  IF \E n \in Named : n[2] = u
  THEN (CHOOSE n \in Named : n[2] = u)[1]
  ELSE IF u - 31 \in DOMAIN Printable THEN Printable[u - 31] ELSE "replacement"

HexDigits == <<"0", "1", "2", "3", "4", "5", "6", "7", "8", "9", "a", "b", "c", "d", "e", "f">>

\* variant: no character is escaped
QuoteCharRaw(c) == <<c>>

\* JSON.stringify of one character of a string
QuoteChar(c) ==
  LET u == CodeUnit(c)
      \* four lowercase hex digits of a code unit
      Hex4(v) ==
        << HexDigits[(v \div 4096) + 1], HexDigits[((v \div 256) % 16) + 1],
           HexDigits[((v \div 16) % 16) + 1], HexDigits[(v % 16) + 1] >>
  IN
  IF c = "\"" THEN <<"\\", "\"">>
  ELSE IF c = "\\" THEN <<"\\", "\\">>
  ELSE IF c = "LF" THEN <<"\\", "n">>
  ELSE IF u < 32 \/ (u >= 55296 /\ u <= 57343) THEN <<"\\", "u">> \o Hex4(u)
  ELSE <<c>>

\* JSON.stringify of a string
Quote(s) ==
  LET RECURSIVE QuoteChars(_)
      QuoteChars(rest) ==
        IF rest = <<>> THEN <<>> ELSE QuoteChar(Head(rest)) \o QuoteChars(Tail(rest))
  IN  <<"\"">> \o QuoteChars(s) \o <<"\"">>

\* JSON.stringify of null, a boolean, an integral number or a string
Stringify(x) ==
  LET RECURSIVE NatToString(_)
      NatToString(n) ==
        IF n < 10 THEN <<Printable[n + 17]>>
        ELSE Append(NatToString(n \div 10), Printable[(n % 10) + 17])
      NumberToString(n) == IF n < 0 THEN <<"-">> \o NatToString(0 - n) ELSE NatToString(n)
  IN
  CASE x.t = "null" -> <<"n", "u", "l", "l">>
    [] x.t = "boolean" -> IF x.b THEN <<"t", "r", "u", "e">> ELSE <<"f", "a", "l", "s", "e">>
    [] x.t = "number" -> NumberToString(x.n)
    [] x.t = "string" -> Quote(x.s)

\* comparison of Array.prototype.sort without comparator: by code units
RECURSIVE StringLess(_, _)
StringLess(a, b) ==
  IF b = <<>> THEN FALSE
  ELSE IF a = <<>> THEN TRUE
  ELSE IF CodeUnit(Head(a)) # CodeUnit(Head(b)) THEN CodeUnit(Head(a)) < CodeUnit(Head(b))
  ELSE StringLess(Tail(a), Tail(b))

\* keys.sort()
RECURSIVE Sort(_)
Sort(keys) ==
  LET RECURSIVE InsertSorted(_, _)
      InsertSorted(k, sorted) ==
        IF sorted = <<>> THEN <<k>>
        ELSE IF StringLess(k, Head(sorted)) THEN <<k>> \o sorted
        ELSE <<Head(sorted)>> \o InsertSorted(k, Tail(sorted))
  IN  IF keys = <<>> THEN <<>> ELSE InsertSorted(Head(keys), Sort(Tail(keys)))

\* Object.keys(obj)
Keys(obj) == obj.keys

\* variant: the keys are left in insertion order
KeysAsInserted(obj) == Keys(obj)

\* Object.keys(obj).sort()
SortedKeys(obj) == Sort(Keys(obj))

\* Array.prototype.join with a comma
RECURSIVE Join(_)
Join(parts) ==
  IF parts = <<>> THEN <<>>
  ELSE IF Len(parts) = 1 THEN parts[1]
  ELSE parts[1] \o <<",">> \o Join(Tail(parts))

RECURSIVE canonicalJSON(_)
canonicalJSON(obj) ==
  IF obj.t \notin {"array", "object"} THEN Stringify(obj)
  ELSE IF obj.t = "array"
  THEN <<"[">> \o Join([i \in DOMAIN obj.items |-> canonicalJSON(obj.items[i])]) \o <<"]">>
  ELSE LET keys == SortedKeys(obj)
           Get(o, k) == o.items[CHOOSE i \in DOMAIN o.keys : o.keys[i] = k]
       IN
       <<"{">>
         \o Join([i \in DOMAIN keys |->
                    Quote(keys[i]) \o <<":">> \o canonicalJSON(Get(obj, keys[i]))])
         \o <<"}">>

\* Buffer.from(text, 'utf8'): an unpaired surrogate becomes EF BF BD
RECURSIVE Utf8(_)
Utf8(text) ==
  IF text = <<>> THEN <<>>
  ELSE LET u == CodeUnit(Head(text)) IN
       (IF u < 128 THEN <<u>>
        ELSE IF u < 2048 THEN <<192 + (u \div 64), 128 + (u % 64)>>
        ELSE IF u >= 55296 /\ u <= 57343 THEN <<239, 191, 189>>
        ELSE <<224 + (u \div 4096), 128 + ((u \div 64) % 64), 128 + (u % 64)>>)
       \o Utf8(Tail(text))

Continuation(b) == b >= 128 /\ b < 192

\* buf.toString('utf8'): an ill-formed sequence becomes U+FFFD
RECURSIVE FromUtf8(_)
FromUtf8(bytes) ==
  IF bytes = <<>> THEN <<>>
  ELSE LET b == bytes[1]
           n == Len(bytes)
       IN  IF b < 128 THEN <<FromCodeUnit(b)>> \o FromUtf8(Tail(bytes))
           ELSE IF b >= 194 /\ b < 224 /\ n >= 2 /\ Continuation(bytes[2])
           THEN <<FromCodeUnit((b - 192) * 64 + (bytes[2] - 128))>>
                  \o FromUtf8(SubSeq(bytes, 3, n))
           ELSE IF b >= 224 /\ b < 240 /\ n >= 3 /\ Continuation(bytes[2])
                   /\ Continuation(bytes[3])
                   /\ (b - 224) * 4096 + (bytes[2] - 128) * 64 >= 2048
                   /\ ~(b = 237 /\ bytes[2] >= 160)
           THEN <<FromCodeUnit((b - 224) * 4096 + (bytes[2] - 128) * 64 + (bytes[3] - 128))>>
                  \o FromUtf8(SubSeq(bytes, 4, n))
           ELSE <<"replacement">> \o FromUtf8(Tail(bytes))

Base64Alphabet ==
  << "A", "B", "C", "D", "E", "F", "G", "H", "I", "J", "K", "L", "M", "N", "O", "P",
     "Q", "R", "S", "T", "U", "V", "W", "X", "Y", "Z", "a", "b", "c", "d", "e", "f",
     "g", "h", "i", "j", "k", "l", "m", "n", "o", "p", "q", "r", "s", "t", "u", "v",
     "w", "x", "y", "z", "0", "1", "2", "3", "4", "5", "6", "7", "8", "9", "+", "/" >>

\* buf.toString('base64')
RECURSIVE ToBase64(_)
ToBase64(bytes) ==
  LET n == Len(bytes)
      c(k) == Base64Alphabet[k + 1]
  IN  IF n = 0 THEN <<>>
      ELSE IF n = 1
      THEN <<c(bytes[1] \div 4), c((bytes[1] % 4) * 16), "=", "=">>
      ELSE IF n = 2
      THEN <<c(bytes[1] \div 4), c((bytes[1] % 4) * 16 + (bytes[2] \div 16)),
             c((bytes[2] % 16) * 4), "=">>
      ELSE <<c(bytes[1] \div 4), c((bytes[1] % 4) * 16 + (bytes[2] \div 16)),
             c((bytes[2] % 16) * 4 + (bytes[3] \div 64)), c(bytes[3] % 64)>>
             \o ToBase64(SubSeq(bytes, 4, n))

\* Buffer.from(b64, 'base64'): characters outside the alphabet are skipped
FromBase64(b64) ==
  LET Sextet(ch) == (CHOOSE k \in DOMAIN Base64Alphabet : Base64Alphabet[k] = ch) - 1
      RECURSIVE FromSextets(_)
      FromSextets(q) ==
        LET n == Len(q) IN
        IF n < 2 THEN <<>>
        ELSE IF n = 2 THEN <<q[1] * 4 + (q[2] \div 16)>>
        ELSE IF n = 3 THEN <<q[1] * 4 + (q[2] \div 16), (q[2] % 16) * 16 + (q[3] \div 4)>>
        ELSE <<q[1] * 4 + (q[2] \div 16), (q[2] % 16) * 16 + (q[3] \div 4),
               (q[3] % 4) * 64 + q[4]>>
               \o FromSextets(SubSeq(q, 5, n))
      \* the characters before the first '='
      RECURSIVE BeforePadding(_)
      BeforePadding(text) ==
        IF text = <<>> \/ Head(text) = "=" THEN <<>>
        ELSE <<Head(text)>> \o BeforePadding(Tail(text))
      InAlphabet(ch) == \E k \in DOMAIN Base64Alphabet : Base64Alphabet[k] = ch
      data == SelectSeq(BeforePadding(b64), InAlphabet)
  IN  FromSextets([i \in DOMAIN data |-> Sextet(data[i])])

encodeX402Header(obj) == ToBase64(Utf8(canonicalJSON(obj)))

\* the outcome of a call that may throw
Thrown(name) == [JNull EXCEPT !.t = "thrown", !.s = <<name>>]

\* JSON.parse(text), of the integral subset of JSON
JSONparse(text) ==
  LET
      \* JSON.parse: a parser's answer is the value read and the position after it,
      \* or a SyntaxError
      Parsed(v, i) == [ok |-> TRUE, v |-> v, i |-> i]

      SyntaxError == [ok |-> FALSE, v |-> JNull, i |-> 0]

      Whitespace == {" ", "LF"}

      RECURSIVE SkipWhitespace(_, _)
      SkipWhitespace(s, i) ==
        IF i <= Len(s) /\ s[i] \in Whitespace THEN SkipWhitespace(s, i + 1) ELSE i

      \* does the literal word stand at position i
      Literal(s, i, word) ==
        /\ i + Len(word) - 1 <= Len(s)
        /\ SubSeq(s, i, i + Len(word) - 1) = word

      HexValue(c) ==
        IF \E k \in DOMAIN HexDigits : HexDigits[k] = c
        THEN (CHOOSE k \in DOMAIN HexDigits : HexDigits[k] = c) - 1
        ELSE IF c \in {"A", "B", "C", "D", "E", "F"} THEN CodeUnit(c) - 55
        ELSE -1

      \* a string: i is the position after the opening quote, acc what was read
      RECURSIVE ParseChars(_, _, _)
      ParseChars(s, i, acc) ==
        IF i > Len(s) THEN SyntaxError
        ELSE IF s[i] = "\"" THEN Parsed(JStr(acc), i + 1)
        ELSE IF CodeUnit(s[i]) < 32 THEN SyntaxError
        ELSE IF s[i] # "\\" THEN ParseChars(s, i + 1, Append(acc, s[i]))
        ELSE IF i + 1 > Len(s) THEN SyntaxError
        ELSE LET e == s[i + 1] IN
             IF e \in {"\"", "\\", "/"} THEN ParseChars(s, i + 2, Append(acc, e))
             ELSE IF e = "n" THEN ParseChars(s, i + 2, Append(acc, "LF"))
             ELSE IF e = "u" /\ i + 5 <= Len(s)
                     /\ \A k \in 2..5 : HexValue(s[i + k]) >= 0
             THEN ParseChars(s, i + 6,
                    Append(acc, FromCodeUnit(HexValue(s[i + 2]) * 4096 + HexValue(s[i + 3]) * 256
                                             + HexValue(s[i + 4]) * 16 + HexValue(s[i + 5]))))
             ELSE SyntaxError

      \* the digits from position i on
      RECURSIVE DigitsFrom(_, _)
      DigitsFrom(s, i) ==
        IF i <= Len(s) /\ s[i] \in Digits THEN <<s[i]>> \o DigitsFrom(s, i + 1) ELSE <<>>

      \* an integral number: -? (0 | [1-9][0-9]*)
      ParseNumber(s, i) ==
        LET neg == s[i] = "-"
            j == IF neg THEN i + 1 ELSE i
            d == IF j <= Len(s) /\ s[j] = "0" THEN <<"0">> ELSE DigitsFrom(s, j)
            end == j + Len(d)
        IN  IF d = <<>> \/ (end <= Len(s) /\ s[end] \in {".", "e", "E"}) THEN SyntaxError
            ELSE Parsed(JNum(IF neg THEN 0 - DigitsValue(d) ELSE DigitsValue(d)), end)

      \* obj[k] = v: a repeated key keeps its place and takes the new value
      SetProp(props, k, v) ==
        IF \E n \in DOMAIN props : props[n].k = k
        THEN [n \in DOMAIN props |-> IF props[n].k = k THEN Prop(k, v) ELSE props[n]]
        ELSE Append(props, Prop(k, v))

      RECURSIVE ParseValue(_, _), ParseElements(_, _, _), ParseMembers(_, _, _)

      \* the elements of an array: i is the position of the next element
      ParseElements(s, i, acc) ==
        LET e == ParseValue(s, i)
            j == SkipWhitespace(s, e.i)
        IN  IF ~e.ok \/ j > Len(s) THEN SyntaxError
            ELSE IF s[j] = "]" THEN Parsed(JArr(Append(acc, e.v)), j + 1)
            ELSE IF s[j] = "," THEN ParseElements(s, j + 1, Append(acc, e.v))
            ELSE SyntaxError

      \* the members of an object: i is the position of the next key
      ParseMembers(s, i, acc) ==
        LET k0 == SkipWhitespace(s, i)
            k == IF k0 <= Len(s) /\ s[k0] = "\"" THEN ParseChars(s, k0 + 1, <<>>) ELSE SyntaxError
            c == SkipWhitespace(s, k.i)
            e == IF k.ok /\ c <= Len(s) /\ s[c] = ":" THEN ParseValue(s, c + 1) ELSE SyntaxError
            j == SkipWhitespace(s, e.i)
        IN  IF ~e.ok \/ j > Len(s) THEN SyntaxError
            ELSE IF s[j] = "}" THEN Parsed(JObj(SetProp(acc, k.v.s, e.v)), j + 1)
            ELSE IF s[j] = "," THEN ParseMembers(s, j + 1, SetProp(acc, k.v.s, e.v))
            ELSE SyntaxError

      ParseValue(s, i0) ==
        LET i == SkipWhitespace(s, i0) IN
        IF i > Len(s) THEN SyntaxError
        ELSE IF Literal(s, i, <<"n", "u", "l", "l">>) THEN Parsed(JNull, i + 4)
        ELSE IF Literal(s, i, <<"t", "r", "u", "e">>) THEN Parsed(JBool(TRUE), i + 4)
        ELSE IF Literal(s, i, <<"f", "a", "l", "s", "e">>) THEN Parsed(JBool(FALSE), i + 5)
        ELSE IF s[i] = "\"" THEN ParseChars(s, i + 1, <<>>)
        ELSE IF s[i] = "-" \/ s[i] \in Digits THEN ParseNumber(s, i)
        ELSE IF s[i] = "["
        THEN LET j == SkipWhitespace(s, i + 1) IN
             IF j <= Len(s) /\ s[j] = "]" THEN Parsed(JArr(<<>>), j + 1)
             ELSE ParseElements(s, j, <<>>)
        ELSE IF s[i] = "{"
        THEN LET j == SkipWhitespace(s, i + 1) IN
             IF j <= Len(s) /\ s[j] = "}" THEN Parsed(JObj(<<>>), j + 1)
             ELSE ParseMembers(s, j, <<>>)
        ELSE SyntaxError
      r == ParseValue(text, 1)
  IN  IF r.ok /\ SkipWhitespace(text, r.i) = Len(text) + 1 THEN r.v ELSE Thrown("SyntaxError")

decodeX402Header(b64) == JSONparse(FromUtf8(FromBase64(b64)))

\* ---------------------------------------------------------------------------
\* Invoice binding: MemoData and InvoiceID of the payment, from the invoice id.
\* A 32-bit word is a pair of 16-bit halves <<high, low>>.
\* ---------------------------------------------------------------------------

\* buf.toString of a Buffer as hex
RECURSIVE ToHex(_)
ToHex(bytes) ==
  IF bytes = <<>> THEN <<>>
  ELSE <<HexDigits[(bytes[1] \div 16) + 1], HexDigits[(bytes[1] % 16) + 1]>> \o ToHex(Tail(bytes))

\* String.prototype.toUpperCase, on the letters a-z
ToUpperCase(text) ==
  [i \in DOMAIN text |->
     IF CodeUnit(text[i]) >= 97 /\ CodeUnit(text[i]) <= 122
     THEN FromCodeUnit(CodeUnit(text[i]) - 32) ELSE text[i]]

\* crypto.createHash of sha256, update(bytes), digest(): SHA-256 of FIPS 180-4
Sha256(bytes) ==
  LET
      RECURSIVE BitwiseXor(_, _, _)
      BitwiseXor(a, b, bits) ==
        IF bits = 0 THEN 0
        ELSE ((a + b) % 2) + 2 * BitwiseXor(a \div 2, b \div 2, bits - 1)

      RECURSIVE BitwiseAnd(_, _, _)
      BitwiseAnd(a, b, bits) ==
        IF bits = 0 THEN 0
        ELSE ((a % 2) * (b % 2)) + 2 * BitwiseAnd(a \div 2, b \div 2, bits - 1)

      Xor(x, y) == <<BitwiseXor(x[1], y[1], 16), BitwiseXor(x[2], y[2], 16)>>

      And(x, y) == <<BitwiseAnd(x[1], y[1], 16), BitwiseAnd(x[2], y[2], 16)>>

      Not(x) == <<65535 - x[1], 65535 - x[2]>>

      \* addition modulo 2^32
      Plus(x, y) ==
        LET low == x[2] + y[2] IN
        <<(x[1] + y[1] + (low \div 65536)) % 65536, low % 65536>>

      \* rotation to the right by n bits, n not a multiple of 16
      RotR(x, n) ==
        LET y == IF n >= 16 THEN <<x[2], x[1]>> ELSE x
            p == 2 ^ (n % 16)
            q == 2 ^ (16 - (n % 16))
        IN  <<(y[1] \div p) + (y[2] % p) * q, (y[2] \div p) + (y[1] % p) * q>>

      \* shift to the right by n < 16 bits
      ShR(x, n) ==
        LET p == 2 ^ n
            q == 2 ^ (16 - n)
        IN  <<x[1] \div p, (x[2] \div p) + (x[1] % p) * q>>

      Ch(x, y, z) == Xor(And(x, y), And(Not(x), z))

      Maj(x, y, z) == Xor(Xor(And(x, y), And(x, z)), And(y, z))

      BigSigma0(x) == Xor(Xor(RotR(x, 2), RotR(x, 13)), RotR(x, 22))

      BigSigma1(x) == Xor(Xor(RotR(x, 6), RotR(x, 11)), RotR(x, 25))

      SmallSigma0(x) == Xor(Xor(RotR(x, 7), RotR(x, 18)), ShR(x, 3))

      SmallSigma1(x) == Xor(Xor(RotR(x, 17), RotR(x, 19)), ShR(x, 10))

      \* the round constants of SHA-256
      RoundConstants ==
        << <<17034, 12184>>, <<28983, 17553>>, <<46528, 64463>>, <<59829, 56229>>,
           <<14678, 49755>>, <<23025, 4593>>, <<37439, 33444>>, <<43804, 24277>>,
           <<55303, 43672>>, <<4739, 23297>>, <<9265, 34238>>, <<21772, 32195>>,
           <<29374, 23924>>, <<32990, 45566>>, <<39900, 1703>>, <<49563, 61812>>,
           <<58523, 27073>>, <<61374, 18310>>, <<4033, 40390>>, <<9228, 41420>>,
           <<11753, 11375>>, <<19060, 33962>>, <<23728, 43484>>, <<30457, 35034>>,
           <<38974, 20818>>, <<43057, 50797>>, <<45059, 10184>>, <<48985, 32711>>,
           <<50912, 3059>>, <<54695, 37191>>, <<1738, 25425>>, <<5161, 10599>>,
           <<10167, 2693>>, <<11803, 8504>>, <<19756, 28156>>, <<21304, 3347>>,
           <<25866, 29524>>, <<30314, 2747>>, <<33218, 51502>>, <<37490, 11397>>,
           <<41663, 59553>>, <<43034, 26187>>, <<49739, 35696>>, <<51052, 20899>>,
           <<53650, 59417>>, <<54937, 1572>>, <<62478, 13701>>, <<4202, 41072>>,
           <<6564, 49430>>, <<7735, 27656>>, <<10056, 30540>>, <<13488, 48309>>,
           <<14620, 3251>>, <<20184, 43594>>, <<23452, 51791>>, <<26670, 28659>>,
           <<29839, 33518>>, <<30885, 25455>>, <<33992, 30740>>, <<36039, 520>>,
           <<37054, 65530>>, <<42064, 27883>>, <<48889, 41975>>, <<50801, 30962>> >>

      \* the initial hash value of SHA-256
      InitialHash ==
        << <<27145, 58983>>, <<47975, 44677>>, <<15470, 62322>>, <<42319, 62778>>,
           <<20750, 21119>>, <<39685, 26764>>, <<8067, 55723>>, <<23520, 52505>> >>

      \* the message followed by the bit 1, zeros, and its length in bits on 64 bits
      Padded(message) ==
        LET n == Len(message)
            zeros == (119 - (n % 64)) % 64
            bits == 8 * n
        IN  message \o <<128>> \o [i \in 1..zeros |-> 0]
              \o <<0, 0, 0, 0, (bits \div 16777216) % 256, (bits \div 65536) % 256,
                   (bits \div 256) % 256, bits % 256>>

      \* the sixteen words of the k-th block
      BlockWords(message, k) ==
        [t \in 1..16 |->
           LET at == 64 * (k - 1) + 4 * (t - 1) IN
           <<message[at + 1] * 256 + message[at + 2], message[at + 3] * 256 + message[at + 4]>>]

      \* the message schedule, grown from sixteen words to sixty-four
      RECURSIVE Schedule(_)
      Schedule(w) ==
        LET n == Len(w) + 1 IN
        IF n > 64 THEN w
        ELSE Schedule(Append(w, Plus(Plus(SmallSigma1(w[n - 2]), w[n - 7]),
                                     Plus(SmallSigma0(w[n - 15]), w[n - 16]))))

      \* the rounds t..64 on the working variables v = <<a, b, c, d, e, f, g, h>>
      RECURSIVE Rounds(_, _, _)
      Rounds(v, w, t) ==
        IF t > 64 \/ Len(v) # 8 THEN v
        ELSE LET t1 == Plus(Plus(Plus(v[8], BigSigma1(v[5])), Plus(Ch(v[5], v[6], v[7]), RoundConstants[t])),
                            w[t])
                 t2 == Plus(BigSigma0(v[1]), Maj(v[1], v[2], v[3]))
             IN  Rounds(<<Plus(t1, t2), v[1], v[2], v[3], Plus(v[4], t1), v[5], v[6], v[7]>>, w, t + 1)

      \* the hash value after the blocks k.. of the padded message
      RECURSIVE Blocks(_, _, _)
      Blocks(state, message, k) ==
        IF 64 * k > Len(message) THEN state
        ELSE LET v == Rounds(state, Schedule(BlockWords(message, k)), 1) IN
             Blocks([i \in 1..8 |-> Plus(state[i], v[i])], message, k + 1)
      hash == Blocks(InitialHash, Padded(bytes), 1)
  IN  [i \in 1..32 |->
         LET word == hash[((i - 1) \div 4) + 1]
             half == word[(((i - 1) % 4) \div 2) + 1]
         IN  IF i % 2 = 1 THEN half \div 256 ELSE half % 256]

\* variant: the hex string is left in lowercase
MemoDataLowercase(invoiceId) == ToHex(Utf8(invoiceId))

\* Buffer.from(invoiceId, utf8).toString(hex).toUpperCase()
MemoData(invoiceId) == ToUpperCase(ToHex(Utf8(invoiceId)))

\* crypto.createHash(sha256).update(invoiceId, utf8).digest(hex).toUpperCase()
InvoiceHash(invoiceId) == ToUpperCase(ToHex(Sha256(Utf8(invoiceId))))

\* step 3 of x402Request, the two constants computed from invoiceId
Binding(invoiceId) ==
  [invoiceId |-> invoiceId, memoData |-> MemoData(invoiceId),
   invoiceHash |-> InvoiceHash(invoiceId)]

\* the bindings of the issued ids and of the empty id, computed once
IssuedBindings ==
  { Binding(id) : id \in { IssuedInvoiceIds[i] : i \in DOMAIN IssuedInvoiceIds } \cup {<<>>} }

\* variant: every Payment carries the binding of the first invoice issued
BuildTxOfFirstInvoice(req) ==
  LET bound == CHOOSE b \in IssuedBindings : b.invoiceId = IssuedInvoiceIds[1] IN
  [TransactionType |-> "Payment", Destination |-> req.payTo, Amount |-> req.amount,
   MemoData |-> bound.memoData, InvoiceID |-> bound.invoiceHash, LastLedgerSequence |-> 0]

\* the Payment built in step 3
BuildTx(req) ==
  LET bound == CHOOSE b \in IssuedBindings : b.invoiceId = req.invoiceId IN
  [TransactionType |-> "Payment", Destination |-> req.payTo, Amount |-> req.amount,
   MemoData |-> bound.memoData, InvoiceID |-> bound.invoiceHash, LastLedgerSequence |-> 0]

\* ---------------------------------------------------------------------------
\* State
\* ---------------------------------------------------------------------------

VARIABLES
  env,                \* process.env: the three guardrail settings as supplied
  BALANCE_FLOOR,      \* guardrail config, JavaScript numbers
  SESSION_CAP_DROPS,
  MAX_SINGLE_DROPS,
  prevCount,          \* main: payments_sent of the block found in the data file
  lifetimeDrops,      \* main: lifetime_drops_spent of that block
  startBalance,       \* main: balance, as read at startup
  facilitatorOk,      \* main: the facilitator lists the network
  startup,            \* every answer received by the startup checks
  pc,                 \* the await main is suspended at
  idx,                \* position of the for-of loop in ENDPOINTS
  currentBalance,     \* main: balance read for the current endpoint
  req,                \* x402Request: the sanitized payment terms
  filled,             \* x402Request: the transaction being prepared
  transactions,       \* main: outcome records
  successCount,
  sessionDropsSpent,
  x402Agent,          \* block written to dashboard-data.json, <<>> before
  validatedLedger,    \* ledger node: index of its last validated ledger
  calls,              \* every call made to the ledger node, merchant, wallet
  challenges,         \* every answer received to an unauthenticated GET
  signed,             \* every transaction handed to agentWallet.sign
  sent,               \* every PAYMENT-SIGNATURE request sent to the merchant
  payload,            \* codec: the value given to encodeX402Header
  twin,               \* codec: the same value built in another property order
  header,             \* codec: the encoded payload
  twinHeader,         \* codec: the encoded twin
  decoded,            \* codec: what decodeX402Header makes of header
  invoices,           \* binding: the invoice ids of two payments
  bindings,           \* binding: MemoData and InvoiceID computed for them
  trials,             \* guardrails: an offer met under two session caps
  verdicts,           \* guardrails: the verdict under each
  AGENT_SEED,         \* mainnet agent: process.env.X402_MAINNET_SEED
  walletState,        \* testnet agent: the wallet object held by main
  isFirstRun,         \* testnet agent
  logs,               \* what either agent has written to the console
  files,              \* content of the files under the repository root
  written,            \* names of the files written during this run
  pushed,             \* names of the files handed to pushFiles
  pendingInvoices,    \* local server: the Map of issued, unredeemed invoices
  handlers,           \* local server: every request received, and where its handler is
  settlements         \* facilitator: every /settle call answered

vars == <<env, BALANCE_FLOOR, SESSION_CAP_DROPS, MAX_SINGLE_DROPS, prevCount, lifetimeDrops,
          startBalance, facilitatorOk, startup,
          pc, idx, currentBalance,
          req, filled, transactions, successCount, sessionDropsSpent, x402Agent,
          validatedLedger, calls, challenges, signed, sent,
          payload, twin, header, twinHeader, decoded, invoices, bindings,
          trials, verdicts,
          AGENT_SEED, walletState, isFirstRun, logs, files, written, pushed,
          pendingInvoices, handlers, settlements>>

\* what main holds fixed during the loop: the settings and the totals loaded
config == <<env, BALANCE_FLOOR, SESSION_CAP_DROPS, MAX_SINGLE_DROPS, prevCount, lifetimeDrops,
           startBalance, facilitatorOk, startup>>

codec == <<payload, twin, header, twinHeader, decoded>>

\* everything the loop of main and x402Request work on, but for pc
session == <<config, idx, currentBalance, req, filled, transactions, successCount,
             sessionDropsSpent, x402Agent, validatedLedger, calls, challenges, signed,
             sent>>

binder == <<invoices, bindings>>

guard == <<trials, verdicts>>

vault == <<AGENT_SEED, walletState, isFirstRun, logs, files, written, pushed>>

server == <<pendingInvoices, handlers, settlements>>

\* no wallet is being loaded
VaultIdle ==
  /\ AGENT_SEED = ""
  /\ walletState = {}
  /\ isFirstRun = FALSE
  /\ logs = {}
  /\ files = <<>>
  /\ written = {}
  /\ pushed = {}

\* the local server is not listening
ServerIdle ==
  /\ pendingInvoices = {}
  /\ handlers = <<>>
  /\ settlements = <<>>

\* no offer is being tried against the guardrails
GuardIdle ==
  /\ trials = <<>>
  /\ verdicts = <<>>

\* no invoice is being bound
BinderIdle ==
  /\ invoices = <<>>
  /\ bindings = <<>>

\* no header is being encoded or decoded
CodecIdle ==
  /\ payload = JNull
  /\ twin = JNull
  /\ header = <<>>
  /\ twinHeader = <<>>
  /\ decoded = JNull

\* no transaction is being prepared
NoTx ==
  [TransactionType |-> "Payment", Destination |-> "", Amount |-> <<>>,
   MemoData |-> <<>>, InvoiceID |-> <<>>, LastLedgerSequence |-> 0]

\* a call: the operation, the endpoint it is made for, the Amount it carries
\* (signature and retried request), and a number: the balance returned, or the
\* running total at the time of the signature
Call(op, i, amount, num) == [op |-> op, i |-> i, amount |-> amount, num |-> num]

\* variant: every record carries the path of the first endpoint
RecordOfFirst(i, status, detail, drops) ==
  [endpoint |-> ENDPOINTS[1], status |-> status, detail |-> detail, amount_drops |-> drops]

\* an entry of signed: the transaction, the terms it pays, the ledger index
\* server_info returned for it and the network of the agent that signed
Signature(i, tx, terms, ledger, network) ==
  [i |-> i, tx |-> tx, req |-> terms, ledger |-> ledger, network |-> network]

\* step 4: sigPayload, the object encoded into the PAYMENT-SIGNATURE header;
\* the blob is the transaction as signed
SigPayload(terms, tx) ==
  [accepted |-> terms, payload |-> [signedTxBlob |-> tx, invoiceId |-> terms.invoiceId]]

\* an entry of sent: the retried GET of step 4, for endpoint i, and whether
\* fetch resolved with status 200
SigRequest(i, sigPayload, res2) ==
  [i |-> i, url |-> ENDPOINTS[i], header |-> sigPayload,
   delivered |-> (res2.net = "ok" /\ res2.status = 200)]

\* an entry of transactions
Record(i, status, detail, drops) ==
  [endpoint |-> ENDPOINTS[i], status |-> status, detail |-> detail, amount_drops |-> drops]

\* module load with these env values, then main up to the head of the loop
\* main up to the loop; existingAgent is the x402_agent block found in the
\* data file, or zeros without a block or without the file
StartupWith(e, existingAgent) ==
  /\ env = e
  /\ BALANCE_FLOOR = ParseBalanceFloor(e.X402_BALANCE_FLOOR)
  /\ SESSION_CAP_DROPS = ParseSessionCap(e.X402_SESSION_CAP_DROPS)
  /\ MAX_SINGLE_DROPS = ParseMaxSingle(e.X402_MAX_SINGLE_DROPS)
  /\ prevCount = existingAgent.payments_sent
  /\ lifetimeDrops = existingAgent.lifetime_drops_spent
  /\ startBalance = Num(WARN_BALANCE)
  /\ facilitatorOk = TRUE
  /\ startup = <<>>
  /\ pc = "balance"
  /\ idx = 1
  /\ currentBalance = Num(0)
  /\ req = NoTerms
  /\ filled = NoTx
  /\ transactions = <<>>
  /\ successCount = 0
  /\ sessionDropsSpent = Num(0)
  /\ x402Agent = <<>>
  /\ validatedLedger = LedgerHeight
  /\ calls = <<>>
  /\ challenges = <<>>
  /\ signed = <<>>
  /\ sent = <<>>
  /\ CodecIdle
  /\ BinderIdle
  /\ GuardIdle
  /\ VaultIdle
  /\ ServerIdle

Startup(e) == StartupWith(e, [payments_sent |-> 0, lifetime_drops_spent |-> Num(0)])

\* the sessions are run with the default guardrails, or with a session cap of
\* 6000 drops
Init ==
  LET FloorEnvs == {Unset}
      CapEnvs == {Unset, <<"6", "0", "0", "0">>}
      MaxEnvs == {Unset}
  IN \E f \in FloorEnvs, c \in CapEnvs, m \in MaxEnvs : Startup(Env(f, c, m))

\* ---------------------------------------------------------------------------
\* main: the loop over ENDPOINTS
\* ---------------------------------------------------------------------------

\* the loop's next iteration, or the end of the loop
NextPc(i) == IF i < Len(ENDPOINTS) THEN "balance" ELSE "final"

\* variant: every caught error is taken for a guardrail skip
CatchStatusAnyError(name) == "SKIPPED"

\* catch block of main: the record's status for a thrown error
CatchStatus(name) == IF name = "GuardrailError" THEN "SKIPPED" ELSE "FAILED"

\* variant: successCount++ placed after the try/catch, so every outcome counts
ConcludeCounted(status, detail) ==
  /\ transactions' = Append(transactions, Record(idx, status, detail, Undefined))
  /\ successCount' = successCount + 1
  /\ UNCHANGED sessionDropsSpent

\* catch block / floor branch of main: one record, counters untouched
Conclude(status, detail) ==
  /\ transactions' = Append(transactions, Record(idx, status, detail, Undefined))
  /\ UNCHANGED <<successCount, sessionDropsSpent>>

\* end of an iteration of the for-of loop
Continue ==
  /\ idx' = idx + 1
  /\ pc' = NextPc(idx)
  /\ req' = NoTerms
  /\ filled' = NoTx

\* variant: the floor branch and the failed balance query go on with the loop
BreakAsContinue == Continue

\* break
Break ==
  /\ pc' = "final"
  /\ UNCHANGED <<idx, req, filled>>

\* main: await checkBalance(...) at the head of the loop body rejects
BalanceFails ==
  /\ pc = "balance"
  /\ calls' = Append(calls, Call("getXrpBalance", idx, <<>>, NaN))
  /\ Break
  /\ UNCHANGED <<config, codec, binder, guard, vault, server, validatedLedger, signed, sent, currentBalance, transactions,
                 successCount, sessionDropsSpent, x402Agent, challenges>>

\* variant: the balance is queried for the first endpoint only and reused
BalanceCheckedOnce ==
  /\ pc = "balance"
  /\ \E reply \in BalanceReplies :
       LET b == IF idx = 1 THEN CheckBalance(reply) ELSE currentBalance IN
       /\ currentBalance' = b
       /\ calls' = IF idx = 1 THEN Append(calls, Call("getXrpBalance", idx, <<>>, b)) ELSE calls
       /\ IF BelowFloor(b, BALANCE_FLOOR)
          THEN /\ Conclude("SKIPPED", "balance below floor")
               /\ Break
          ELSE /\ pc' = "challenge"
               /\ UNCHANGED <<idx, req, filled, transactions, successCount, sessionDropsSpent>>
  /\ UNCHANGED <<config, codec, binder, guard, vault, server, validatedLedger, signed, sent, x402Agent, challenges>>

\* main: await checkBalance(...) at the head of the loop body returns
BalanceChecked ==
  /\ pc = "balance"
  /\ \E reply \in BalanceReplies :
       LET b == CheckBalance(reply) IN
       /\ currentBalance' = b
       /\ calls' = Append(calls, Call("getXrpBalance", idx, <<>>, b))
       /\ IF BelowFloor(b, BALANCE_FLOOR)
          THEN /\ Conclude("SKIPPED", "balance below floor")
               /\ Break
          ELSE /\ pc' = "challenge"
               /\ UNCHANGED <<idx, req, filled, transactions, successCount, sessionDropsSpent>>
  /\ UNCHANGED <<config, codec, binder, guard, vault, server, validatedLedger, signed, sent, x402Agent, challenges>>

\* variant: every request is given the total read when the session started
ChallengeStaleTotal ==
  /\ pc = "challenge"
  /\ \E res1 \in ChallengeResponses(IssuedInvoiceIds[idx]) :
       LET out == AfterChallenge(res1, Num(0), SESSION_CAP_DROPS, MAX_SINGLE_DROPS) IN
       /\ calls' = Append(calls, Call("GET", idx, <<>>, NaN))
       /\ challenges' = Append(challenges, [i |-> idx, res1 |-> res1, spent |-> Num(0)])
       /\ IF out.name = ""
          THEN /\ req' = out.req
               /\ filled' = BuildTx(out.req)
               /\ pc' = "autofill"
               /\ UNCHANGED <<idx, transactions, successCount, sessionDropsSpent>>
          ELSE /\ Conclude(CatchStatus(out.name), out.msg)
               /\ Continue
  /\ UNCHANGED <<config, codec, binder, guard, vault, server, validatedLedger, signed, sent, currentBalance, x402Agent>>

\* x402Request step 1-2: the unauthenticated GET is answered
Challenge ==
  /\ pc = "challenge"
  /\ \E res1 \in ChallengeResponses(IssuedInvoiceIds[idx]) :
       LET out == AfterChallenge(res1, sessionDropsSpent, SESSION_CAP_DROPS, MAX_SINGLE_DROPS) IN
       /\ calls' = Append(calls, Call("GET", idx, <<>>, NaN))
       /\ challenges' = Append(challenges, [i |-> idx, res1 |-> res1, spent |-> sessionDropsSpent])
       /\ IF out.name = ""
          THEN /\ req' = out.req
               /\ filled' = BuildTx(out.req)
               /\ pc' = "autofill"
               /\ UNCHANGED <<idx, transactions, successCount, sessionDropsSpent>>
          ELSE /\ Conclude(CatchStatus(out.name), out.msg)
               /\ Continue
  /\ UNCHANGED <<config, codec, binder, guard, vault, server, validatedLedger, signed, sent, currentBalance, x402Agent>>

\* x402Request step 3: await xrplClient.autofill(tx) rejects
AutofillFails ==
  /\ pc = "autofill"
  /\ calls' = Append(calls, Call("autofill", idx, <<>>, NaN))
  /\ Conclude(CatchStatus("Error"), "autofill failed")
  /\ Continue
  /\ UNCHANGED <<config, codec, binder, guard, vault, server, validatedLedger, signed, sent, currentBalance, x402Agent, challenges>>

\* x402Request step 3: await xrplClient.autofill(tx) returns, type whitelist
Autofilled ==
  /\ pc = "autofill"
  /\ \E type \in AutofillTypes :
       LET f == [filled EXCEPT !.TransactionType = type] IN
       /\ calls' = Append(calls, Call("autofill", idx, <<>>, NaN))
       /\ IF TypeDenied(f)
          THEN /\ Conclude(CatchStatus("GuardrailError"), "blocked non-Payment transaction type")
               /\ Continue
          ELSE /\ filled' = f
               /\ pc' = "server_info"
               /\ UNCHANGED <<idx, req, transactions, successCount, sessionDropsSpent>>
  /\ UNCHANGED <<config, codec, binder, guard, vault, server, validatedLedger, signed, sent, currentBalance, x402Agent, challenges>>

\* x402Request step 3: await xrplClient.request(server_info) rejects
ServerInfoFails ==
  /\ pc = "server_info"
  /\ calls' = Append(calls, Call("server_info", idx, <<>>, NaN))
  /\ Conclude(CatchStatus("Error"), "server_info failed")
  /\ Continue
  /\ UNCHANGED <<config, codec, binder, guard, vault, server, validatedLedger, signed, sent, currentBalance, x402Agent, challenges>>

\* variant: the wallet signs first and the ledger height is asked afterwards
SignBeforeServerInfo ==
  /\ pc = "server_info"
  /\ filled' = [filled EXCEPT !.LastLedgerSequence = LastLedger(validatedLedger, req)]
  /\ calls' = calls \o << Call("sign", idx, filled.Amount, sessionDropsSpent),
                          Call("server_info", idx, <<>>, NaN) >>
  /\ signed' = Append(signed, Signature(idx, filled', req, validatedLedger, NETWORK))
  /\ pc' = "retry"
  /\ UNCHANGED <<config, codec, binder, guard, vault, server, validatedLedger, sent, idx, currentBalance, req, transactions,
                 successCount, sessionDropsSpent, x402Agent, challenges>>

\* x402Request step 3-4: server_info returns, LastLedgerSequence is set, the
\* wallet signs and the retried GET is sent
Sign ==
  /\ pc = "server_info"
  /\ filled' = [filled EXCEPT !.LastLedgerSequence = LastLedger(validatedLedger, req)]
  /\ calls' = calls \o << Call("server_info", idx, <<>>, NaN),
                          Call("sign", idx, filled.Amount, sessionDropsSpent) >>
  /\ signed' = Append(signed, Signature(idx, filled', req, validatedLedger, NETWORK))
  /\ pc' = "retry"
  /\ UNCHANGED <<config, codec, binder, guard, vault, server, validatedLedger, sent, idx, currentBalance, req, transactions,
                 successCount, sessionDropsSpent, x402Agent, challenges>>

\* variant: a rejected payment is followed by a fresh challenge for the same
\* resource
RetryUntilAccepted ==
  /\ pc = "retry"
  /\ \E res2 \in RetryResponses :
       /\ calls' = Append(calls, Call("GET+PAYMENT-SIGNATURE", idx, filled.Amount, NaN))
       /\ sent' = Append(sent, SigRequest(idx, SigPayload(req, filled), res2))
       /\ IF res2.net = "ok" /\ res2.status # 200
          THEN /\ pc' = "challenge"
               /\ UNCHANGED <<idx, req, filled, transactions, successCount, sessionDropsSpent>>
          ELSE /\ IF RetryThrows(res2)
                  THEN Conclude(CatchStatus("Error"), RetryError(res2))
                  ELSE LET drops == ReportedDrops(res2) IN
                       /\ sessionDropsSpent' = JsAdd(sessionDropsSpent, DropsInt(drops))
                       /\ transactions' = Append(transactions, Record(idx, "SUCCESS", "", drops))
                       /\ successCount' = successCount + 1
               /\ Continue
  /\ UNCHANGED <<config, codec, binder, guard, vault, server, validatedLedger, signed, currentBalance, x402Agent, challenges>>

\* x402Request step 4-5 and the rest of main's try block: the retried GET is
\* answered
Retry ==
  /\ pc = "retry"
  /\ \E res2 \in RetryResponses :
       /\ calls' = Append(calls, Call("GET+PAYMENT-SIGNATURE", idx, filled.Amount, NaN))
       /\ sent' = Append(sent, SigRequest(idx, SigPayload(req, filled), res2))
       /\ IF RetryThrows(res2)
          THEN Conclude(CatchStatus("Error"), RetryError(res2))
          ELSE LET drops == ReportedDrops(res2) IN
               /\ sessionDropsSpent' = JsAdd(sessionDropsSpent, DropsInt(drops))
               /\ transactions' = Append(transactions, Record(idx, "SUCCESS", "", drops))
               /\ successCount' = successCount + 1
       /\ Continue
  /\ UNCHANGED <<config, codec, binder, guard, vault, server, validatedLedger, signed, currentBalance, x402Agent, challenges>>

\* main after the loop: client.disconnect() rejects, or the data file cannot
\* be read, parsed or written; main rejects and the process exits with code 1
FinalizeFails ==
  /\ pc = "final"
  /\ pc' = "exit"
  /\ UNCHANGED <<session, codec, binder, guard, vault, server>>

\* main after the loop: the x402_agent block is written
Finalize ==
  /\ pc = "final"
  /\ x402Agent' = [payments_sent |-> prevCount + successCount,
                   session_drops_spent |-> sessionDropsSpent,
                   lifetime_drops_spent |-> JsAdd(lifetimeDrops, sessionDropsSpent),
                   transactions |-> transactions]
  /\ pc' = "done"
  /\ UNCHANGED <<config, codec, binder, guard, vault, server, validatedLedger, signed, sent, idx, currentBalance, req, filled,
                 transactions, successCount, sessionDropsSpent, calls, challenges>>

Next ==
  \/ BalanceFails
  \/ BalanceChecked
  \/ Challenge
  \/ AutofillFails
  \/ Autofilled
  \/ ServerInfoFails
  \/ Sign
  \/ Retry
  \/ Finalize

Spec == Init /\ [][Next]_vars

TypeOK ==
  /\ pc \in {"balance", "challenge", "autofill", "server_info", "retry", "final", "done", "exit",
            "testnet_autofill", "testnet_server_info", "testnet_retry", "testnet_thrown",
            "encode", "decode", "decoded", "bind", "bound", "evaluate", "evaluated",
            "mainnet_wallet", "mainnet_persist", "testnet_wallets", "testnet_open",
            "testnet_persist", "mainnet_push", "testnet_push", "listening",
            "connect", "startup_balance", "facilitator", "health"}
  /\ idx \in 1..(Len(ENDPOINTS) + 1)
  /\ Len(transactions) <= Len(ENDPOINTS)
  /\ successCount \in 0..Len(ENDPOINTS)

\* ---------------------------------------------------------------------------
\* Reading the history
\* ---------------------------------------------------------------------------

\* positions in calls of the calls of one kind made for endpoint i
CallsOf(op, i) == { k \in DOMAIN calls : calls[k].op = op /\ calls[k].i = i }

\* the endpoints a call of this kind was made for
Reached(op) == { calls[k].i : k \in { j \in DOMAIN calls : calls[j].op = op } }

\* positions in transactions of the records of endpoint i
RecordsOf(i) == { k \in DOMAIN transactions : transactions[k].endpoint = ENDPOINTS[i] }

\* the amount of an offer as the agent reads it
OfferedDrops(c) == DigitsValue(StripNonDigits(c.res1.terms.amount))

\* a challenge that reaches the guardrail checks
WellFormed(c) ==
  /\ c.res1.net = "ok" /\ c.res1.status = 402 /\ c.res1.hdr = "json"
  /\ c.res1.accepts /\ c.res1.terms.invoiceId # <<>>
  /\ StripNonDigits(c.res1.terms.amount) # <<>>

RECURSIVE SumSent(_)
SumSent(log) ==
  IF log = <<>> THEN 0
  ELSE LET last == log[Len(log)] IN
       SumSent(SubSeq(log, 1, Len(log) - 1))
         + (IF last.op = "GET+PAYMENT-SIGNATURE" THEN DigitsValue(last.amount) ELSE 0)

\* ---------------------------------------------------------------------------
\* Claims
\* ---------------------------------------------------------------------------

\* C1: a transfer is signed for an endpoint only if the balance queried for
\* that endpoint is >= BALANCE_FLOOR, the offered amount is <= MAX_SINGLE_DROPS
\* and sessionDropsSpent + offered amount <= SESSION_CAP_DROPS.
C1_SignedOnlyWithinGuardrails ==
  \A k \in DOMAIN calls :
    calls[k].op = "sign" =>
      \E c \in DOMAIN challenges, b \in CallsOf("getXrpBalance", calls[k].i) :
        /\ challenges[c].i = calls[k].i
        /\ b < k
        /\ JsLe(BALANCE_FLOOR, calls[b].num)
        /\ JsLe(Num(OfferedDrops(challenges[c])), MAX_SINGLE_DROPS)
        /\ JsLe(JsAdd(calls[k].num, Num(OfferedDrops(challenges[c]))), SESSION_CAP_DROPS)

\* C2: the sum of the Amounts of all transfers signed and sent in a retried
\* request during the session is at most SESSION_CAP_DROPS.
C2_SentWithinSessionCap == JsLe(Num(SumSent(calls)), SESSION_CAP_DROPS)

\* C3: when the balance queried before endpoint i is below the floor, no
\* challenge request is issued for endpoint i or for any later endpoint.
C3_FloorBreachHalts ==
  \A k \in DOMAIN calls :
    ( /\ calls[k].op = "getXrpBalance"
      /\ calls[k].num # NaN
      /\ calls[k].num[1] < BALANCE_FLOOR[1] )
    => /\ \A j \in Reached("GET") : j < calls[k].i
       /\ \A m \in DOMAIN calls : m > k => calls[m].op \notin {"GET", "GET+PAYMENT-SIGNATURE", "sign"}

\* the floor is breached at the second endpoint after the first was attempted
C3_Witness ==
  /\ pc = "done"
  /\ 1 \in Reached("GET")
  /\ \E k \in CallsOf("getXrpBalance", 2) :
       calls[k].num # NaN /\ calls[k].num[1] < BALANCE_FLOOR[1]

\* the loop has gone on to the endpoint after i, or has ended after the last
ContinuesAfter(i) ==
  IF i < Len(ENDPOINTS)
  THEN (idx = i + 1 /\ pc = "balance") \/ CallsOf("getXrpBalance", i + 1) # {}
  ELSE pc \in {"final", "done", "exit"}

\* endpoint i has exactly one record, with this status and detail
OneRecord(i, status, detail) ==
  /\ Cardinality(RecordsOf(i)) = 1
  /\ \A k \in RecordsOf(i) :
       transactions[k].status = status /\ transactions[k].detail = detail

\* no call of these kinds was made for endpoint i
NoCalls(i, ops) == \A op \in ops : CallsOf(op, i) = {}

\* the offer of challenge c is over the per-transaction max
OverMax(c) == OfferedDrops(c) > MAX_SINGLE_DROPS[1]

\* the offer of challenge c would take the running total over the session cap
OverCap(c) == c.spent # NaN /\ c.spent[1] + OfferedDrops(c) > SESSION_CAP_DROPS[1]

C5_SkippedWithoutAnyCall ==
  \A i \in DOMAIN ENDPOINTS : \A k \in RecordsOf(i) :
    (transactions[k].status = "SKIPPED" /\ transactions[k].detail # "balance below floor")
      => NoCalls(i, {"autofill", "server_info", "sign", "GET+PAYMENT-SIGNATURE"})

\* C5 amended: a SKIPPED resource was reached with no server_info query, no
\* retried request and no signature; a per-transaction-max, session-cap or
\* floor skip also with no autofill, a transaction-type skip with exactly one
\* autofill, which is the last call made for the resource.
C5_SkippedWithoutSignature ==
  \A i \in DOMAIN ENDPOINTS : \A k \in RecordsOf(i) :
    transactions[k].status = "SKIPPED" =>
      /\ NoCalls(i, {"server_info", "sign", "GET+PAYMENT-SIGNATURE"})
      /\ IF transactions[k].detail = "blocked non-Payment transaction type"
         THEN /\ Cardinality(CallsOf("autofill", i)) = 1
              /\ \A a \in CallsOf("autofill", i), m \in DOMAIN calls :
                   calls[m].i = i => m <= a
         ELSE NoCalls(i, {"autofill"})

\* one resource skipped by the per-transaction max, one by the type whitelist
C5_Witness ==
  /\ \E k \in DOMAIN transactions :
       transactions[k].status = "SKIPPED" /\ transactions[k].detail = "exceeds per-tx max"
  /\ \E k \in DOMAIN transactions :
       /\ transactions[k].status = "SKIPPED"
       /\ transactions[k].detail = "blocked non-Payment transaction type"

\* the amount a SUCCESS record reports: a number, a numeric string, or nothing
SettledAmount(v) ==
  IF v.t = "number" THEN v.n
  ELSE IF v.t = "string" /\ ParseInt(v.s) # NaN THEN ParseInt(v.s)[1]
  ELSE 0

RECURSIVE SumSettled(_)
SumSettled(txs) ==
  IF txs = <<>> THEN 0
  ELSE LET last == txs[Len(txs)] IN
       SumSettled(SubSeq(txs, 1, Len(txs) - 1))
         + (IF last.status = "SUCCESS" THEN SettledAmount(last.amount_drops) ELSE 0)

\* C6: at the end of a session sessionDropsSpent is the sum of the amounts
\* reported for the resources that ended SUCCESS; three settlements give three
\* SUCCESS records and the sum of the three amounts.
C6_SpentIsSumOfSettled ==
  pc = "done" =>
    /\ sessionDropsSpent = Num(SumSettled(transactions))
    /\ x402Agent.session_drops_spent = Num(SumSettled(transactions))
    /\ successCount = Cardinality({ k \in DOMAIN transactions : transactions[k].status = "SUCCESS" })

\* C7: a step that records a SKIPPED or FAILED outcome leaves sessionDropsSpent
\* and successCount unchanged, and the two change only in a step that records
\* a SUCCESS outcome.
C7_OnlySuccessCounts ==
  [][ /\ ( /\ transactions' # transactions
           /\ transactions'[Len(transactions')].status \in {"SKIPPED", "FAILED"} )
         => (sessionDropsSpent' = sessionDropsSpent /\ successCount' = successCount)
      /\ (sessionDropsSpent' # sessionDropsSpent \/ successCount' # successCount)
         => /\ transactions' # transactions
            /\ SubSeq(transactions', 1, Len(transactions)) = transactions
            /\ Len(transactions') = Len(transactions) + 1
            /\ transactions'[Len(transactions')].status = "SUCCESS" ]_vars

\* a settlement of 4000 drops followed by a FAILED and a SKIPPED resource
C7_Witness ==
  /\ Len(transactions) = 3
  /\ transactions[1].status = "SUCCESS"
  /\ transactions[2].status = "FAILED"
  /\ transactions[3].status = "SKIPPED"
  /\ sessionDropsSpent = Num(4000)
  /\ successCount = 1

\* C8: per resource at most one challenge request, one signature and one
\* retried request; after a retried request is rejected no further call is
\* made for that resource.
C8_SingleAttempt ==
  \A i \in DOMAIN ENDPOINTS :
    /\ Cardinality(CallsOf("GET", i)) <= 1
    /\ Cardinality(CallsOf("sign", i)) <= 1
    /\ Cardinality(CallsOf("GET+PAYMENT-SIGNATURE", i)) <= 1
    /\ \A k \in RecordsOf(i) :
         transactions[k].detail = "Payment rejected" =>
           \A r \in CallsOf("GET+PAYMENT-SIGNATURE", i), m \in DOMAIN calls :
             calls[m].i = i => m <= r

\* the payment for the first endpoint was rejected and the session went on
C8_Witness ==
  /\ \E k \in RecordsOf(1) : transactions[k].detail = "Payment rejected"
  /\ CallsOf("sign", 1) # {}
  /\ CallsOf("GET", 2) # {}

\* C9: a challenge request answered with a status other than 402 ends the
\* resource FAILED with no decode, no guardrail evaluation, no signature and
\* no second request, and the loop goes on to the next resource.
C9_UnexpectedStatusFails ==
  \A n \in DOMAIN challenges :
    LET c == challenges[n] IN
    (c.res1.net = "ok" /\ c.res1.status # 402) =>
      /\ OneRecord(c.i, "FAILED", "Expected 402")
      /\ Cardinality(CallsOf("GET", c.i)) = 1
      /\ NoCalls(c.i, {"autofill", "server_info", "sign", "GET+PAYMENT-SIGNATURE"})
      /\ ContinuesAfter(c.i)

\* statuses 200 and 500 arrive with payment terms attached, the first over the
\* per-transaction max, and the third endpoint is still challenged
C9_Witness ==
  /\ Len(challenges) = 3
  /\ challenges[1].res1.status = 200 /\ challenges[1].res1.hdr = "json"
  /\ OverMax(challenges[1])
  /\ challenges[2].res1.status = 500 /\ challenges[2].res1.hdr = "json"
  /\ Len(transactions) >= 2

\* a 402 answer without the header, with a header that does not decode, without
\* an accepts entry or without an invoiceId
Malformed(c) ==
  /\ c.res1.net = "ok" /\ c.res1.status = 402
  /\ \/ c.res1.hdr # "json"
     \/ ~c.res1.accepts
     \/ c.res1.terms.invoiceId = <<>>

\* C10: a malformed challenge marks the resource FAILED, produces no signature
\* and no retried request, and the loop goes on to the next resource.
C10_MalformedChallengeFails ==
  \A n \in DOMAIN challenges :
    LET c == challenges[n] IN
    Malformed(c) =>
      /\ Cardinality(RecordsOf(c.i)) = 1
      /\ \A k \in RecordsOf(c.i) : transactions[k].status = "FAILED"
      /\ Cardinality(CallsOf("GET", c.i)) = 1
      /\ NoCalls(c.i, {"autofill", "server_info", "sign", "GET+PAYMENT-SIGNATURE"})
      /\ ContinuesAfter(c.i)

\* a missing header, an undecodable header and terms without invoiceId in one
\* session
C10_Witness ==
  /\ Len(challenges) = 3
  /\ challenges[1].res1.status = 402 /\ challenges[1].res1.hdr = "none"
  /\ challenges[2].res1.status = 402 /\ challenges[2].res1.hdr = "garbage"
  /\ challenges[3].res1.accepts /\ challenges[3].res1.terms.invoiceId = <<>>
  /\ pc = "done"

\* ---------------------------------------------------------------------------
\* Outcome records
\* ---------------------------------------------------------------------------

\* the endpoints the merchant was asked for
Attempted == Reached("GET")

\* the endpoints the loop has left behind
Finished == { i \in DOMAIN ENDPOINTS : i < idx \/ (i = idx /\ pc \in {"final", "done", "exit"}) }

LedgerFailed ==
  { i \in DOMAIN ENDPOINTS :
      \/ \E k \in CallsOf("getXrpBalance", i) : calls[k].num = NaN
      \/ \E r \in RecordsOf(i) :
           transactions[r].detail \in {"autofill failed", "server_info failed"} }

\* C12: after a call to the ledger node has rejected during the processing of
\* an endpoint, no call is made for any later endpoint, and the block written
\* at the end holds the records gathered so far.
C12_LedgerFailureHalts ==
  /\ \A i \in LedgerFailed : \A k \in DOMAIN calls : calls[k].i <= i
  /\ (pc = "done" /\ LedgerFailed # {}) => x402Agent.transactions = transactions

\* ---------------------------------------------------------------------------
\* The signed transaction
\* ---------------------------------------------------------------------------

\* the challenges answered for endpoint i
ChallengesOf(i) == { c \in DOMAIN challenges : challenges[c].i = i }

\* C13: the Amount of every signed transaction is the amount string of the
\* challenge as the server sent it, and its Destination is the payTo of that
\* challenge.
C13_SignedAmountAsIssued ==
  \A k \in DOMAIN signed :
    \E c \in ChallengesOf(signed[k].i) :
      /\ signed[k].tx.Amount = challenges[c].res1.terms.amount
      /\ signed[k].tx.Destination = challenges[c].res1.terms.payTo

\* C14: every transaction handed to the wallet has the type Payment and was
\* autofilled before; an endpoint blocked for the type of its filled
\* transaction is SKIPPED with no server_info, no signature and no retried GET.
C14_NonPaymentNeverSigned ==
  /\ \A k \in DOMAIN signed : signed[k].tx.TransactionType = "Payment"
  /\ \A k \in DOMAIN calls :
       calls[k].op = "sign" => \E a \in CallsOf("autofill", calls[k].i) : a < k
  /\ \A r \in DOMAIN transactions :
       transactions[r].detail = "blocked non-Payment transaction type" =>
         /\ transactions[r].status = "SKIPPED"
         /\ \E a \in CallsOf("autofill", r) : TRUE
         /\ NoCalls(r, {"server_info", "sign", "GET+PAYMENT-SIGNATURE"})
         /\ \A k \in DOMAIN signed : signed[k].i # r

\* autofill returns a non-Payment transaction for the first endpoint and a
\* Payment for the second, which is signed
C14_Witness ==
  /\ Len(transactions) >= 1
  /\ transactions[1].detail = "blocked non-Payment transaction type"
  /\ Len(signed) = 1
  /\ signed[1].i = 2
  /\ signed[1].tx.TransactionType = "Payment"

\* ---------------------------------------------------------------------------
\* LastLedgerSequence: step 3 of x402Request in both agents, entered with
\* payment terms of every timeout and a ledger node at every height
\* ---------------------------------------------------------------------------

\* the testnet agent, scripts/x402-testnet.js
TESTNET_NETWORK == "xrpl:1"

TESTNET_DEFAULT_TIMEOUT_SECONDS == 300

TESTNET_LEDGER_INTERVAL_SECONDS == 5

TESTNET_LEDGER_MARGIN == 2

\* testnet agent: tx as built in step 3
TestnetBuildTx(terms) ==
  LET bound == CHOOSE b \in IssuedBindings : b.invoiceId = terms.invoiceId IN
  [TransactionType |-> "Payment", Destination |-> terms.payTo, Amount |-> terms.amount,
   MemoData |-> bound.memoData, InvoiceID |-> bound.invoiceHash, LastLedgerSequence |-> 0]

\* testnet agent: currentLedger + Math.ceil((req.maxTimeoutSeconds ?? 300) / 5) + 2
TestnetLastLedger(currentLedger, terms) ==
  LET t == IF terms.maxTimeoutSeconds = <<>> THEN TESTNET_DEFAULT_TIMEOUT_SECONDS
           ELSE terms.maxTimeoutSeconds[1]
  IN  currentLedger + CeilDiv(t, TESTNET_LEDGER_INTERVAL_SECONDS) + TESTNET_LEDGER_MARGIN

\* testnet agent: await xrplClient.autofill(tx) rejects, x402Request throws
TestnetAutofillFails ==
  /\ pc = "testnet_autofill"
  /\ calls' = Append(calls, Call("autofill", idx, <<>>, NaN))
  /\ pc' = "testnet_thrown"
  /\ UNCHANGED <<config, codec, binder, guard, vault, server, validatedLedger, signed, sent, idx, currentBalance, req, filled,
                 transactions, successCount, sessionDropsSpent, x402Agent, challenges>>

\* testnet agent: await xrplClient.autofill(tx) returns; the type is not looked at
TestnetAutofilled ==
  /\ pc = "testnet_autofill"
  /\ \E type \in AutofillTypes :
       filled' = [filled EXCEPT !.TransactionType = type]
  /\ calls' = Append(calls, Call("autofill", idx, <<>>, NaN))
  /\ pc' = "testnet_server_info"
  /\ UNCHANGED <<config, codec, binder, guard, vault, server, validatedLedger, signed, sent, idx, currentBalance, req,
                 transactions, successCount, sessionDropsSpent, x402Agent, challenges>>

\* testnet agent: the server_info request rejects, x402Request throws
TestnetServerInfoFails ==
  /\ pc = "testnet_server_info"
  /\ calls' = Append(calls, Call("server_info", idx, <<>>, NaN))
  /\ pc' = "testnet_thrown"
  /\ UNCHANGED <<config, codec, binder, guard, vault, server, validatedLedger, signed, sent, idx, currentBalance, req, filled,
                 transactions, successCount, sessionDropsSpent, x402Agent, challenges>>

\* testnet agent: server_info returns, LastLedgerSequence is set, the wallet
\* signs and the retried GET is sent
TestnetSign ==
  /\ pc = "testnet_server_info"
  /\ filled' = [filled EXCEPT !.LastLedgerSequence = TestnetLastLedger(validatedLedger, req)]
  /\ calls' = calls \o << Call("server_info", idx, <<>>, NaN),
                          Call("sign", idx, filled.Amount, NaN) >>
  /\ signed' = Append(signed, Signature(idx, filled', req, validatedLedger, TESTNET_NETWORK))
  /\ pc' = "testnet_retry"
  /\ UNCHANGED <<config, codec, binder, guard, vault, server, validatedLedger, sent, idx, currentBalance, req, transactions,
                 successCount, sessionDropsSpent, x402Agent, challenges>>

\* largest maxTimeoutSeconds offered, besides the default
MaxTimeoutSeconds == 12

\* number of ledger heights the node may be at
LedgerHeights == 4

\* either agent stands before autofill with the terms of a challenge that
\* passed every check of steps 1-2; maxTimeoutSeconds is absent or a number of
\* seconds
InitExpiry ==
  LET Timeouts ==
        {<<>>} \cup { Num(t) : t \in 0..MaxTimeoutSeconds } \cup {Num(DEFAULT_TIMEOUT_SECONDS)}
      Offer(timeout) ==
        Res1("ok", 402, "json", TRUE,
             Terms(<<"4", "0", "0", "0">>, "rMerchant", IssuedInvoiceIds[1], timeout))
  IN
  /\ env = Env(Unset, Unset, Unset)
  /\ BALANCE_FLOOR = ParseBalanceFloor(Unset)
  /\ SESSION_CAP_DROPS = ParseSessionCap(Unset)
  /\ MAX_SINGLE_DROPS = ParseMaxSingle(Unset)
  /\ prevCount = 0
  /\ lifetimeDrops = Num(0)
  /\ startBalance = Num(WARN_BALANCE)
  /\ facilitatorOk = TRUE
  /\ startup = <<>>
  /\ idx = 1
  /\ transactions = <<>>
  /\ successCount = 0
  /\ sessionDropsSpent = Num(0)
  /\ x402Agent = <<>>
  /\ signed = <<>>
  /\ sent = <<>>
  /\ CodecIdle
  /\ BinderIdle
  /\ GuardIdle
  /\ VaultIdle
  /\ ServerIdle
  /\ validatedLedger \in (LedgerHeight - LedgerHeights + 1)..LedgerHeight
  /\ \E timeout \in Timeouts :
       /\ req = Offer(timeout).terms
       /\ challenges = <<[i |-> 1, res1 |-> Offer(timeout), spent |-> Num(0)]>>
       /\ \/ /\ pc = "autofill"
             /\ currentBalance = BALANCE_FLOOR
             /\ filled = BuildTx(req)
             /\ calls = << Call("getXrpBalance", 1, <<>>, BALANCE_FLOOR),
                           Call("GET", 1, <<>>, NaN) >>
          \/ /\ pc = "testnet_autofill"
             /\ currentBalance = Num(0)
             /\ filled = TestnetBuildTx(req)
             /\ calls = << Call("GET", 1, <<>>, NaN) >>

NextExpiry ==
  \/ AutofillFails
  \/ Autofilled
  \/ ServerInfoFails
  \/ Sign
  \/ TestnetAutofillFails
  \/ TestnetAutofilled
  \/ TestnetServerInfoFails
  \/ TestnetSign

SpecExpiry == InitExpiry /\ [][NextExpiry]_vars

\* the least n with n * interval >= seconds
LedgersFor(seconds, interval) ==
  CHOOSE n \in 0..(seconds + 1) :
    /\ n * interval >= seconds
    /\ n = 0 \/ (n - 1) * interval < seconds

InitConfig ==
  LET BadEnvs ==
        { Env(Unset, <<"n", "o", "n", "e">>, Unset),
          Env(Unset, Unset, <<"-", "5", "0", "0", "0">>),
          Env(Unset, <<"3", "0", "0", "0">>, Unset) }
  IN \E e \in BadEnvs : Startup(e)

SpecConfig == InitConfig /\ [][Next]_vars

\* a setting that is supplied and is not a non-negative decimal number
Invalid(setting) ==
  /\ setting # Unset
  /\ \/ setting = <<>>
     \/ \E k \in DOMAIN setting : setting[k] \notin Digits

\* C16: a session whose balance floor, session cap or per-transaction max was
\* supplied as a non-numeric or negative value sends no challenge request and
\* signs nothing.
C16_InvalidConfigRejected ==
  ( \/ Invalid(env.X402_BALANCE_FLOOR)
    \/ Invalid(env.X402_SESSION_CAP_DROPS)
    \/ Invalid(env.X402_MAX_SINGLE_DROPS) )
  => /\ Reached("GET") = {}
     /\ signed = <<>>

\* C17: a session whose session cap is smaller than its per-transaction max
\* sends no challenge request and signs nothing.
C17_CapBelowMaxRejected ==
  JsLt(SESSION_CAP_DROPS, MAX_SINGLE_DROPS)
  => /\ Reached("GET") = {}
     /\ signed = <<>>

\* ---------------------------------------------------------------------------
\* The codec applied to payloads of every kind
\* ---------------------------------------------------------------------------

\* deep equality of two values, whatever the order of their properties
RECURSIVE StructEq(_, _)
StructEq(a, b) ==
  IF a.t # b.t THEN FALSE
  ELSE IF a.t = "array"
  THEN /\ Len(a.items) = Len(b.items)
       /\ \A i \in DOMAIN a.items : StructEq(a.items[i], b.items[i])
  ELSE IF a.t = "object"
  THEN /\ Len(a.keys) = Len(b.keys)
       /\ \A i \in DOMAIN a.keys :
            \E j \in DOMAIN b.keys :
              a.keys[i] = b.keys[j] /\ StructEq(a.items[i], b.items[j])
  ELSE a = b

\* largest number among the values encoded
MaxNumber == 2

\* the values encoded: atoms, objects of one or two properties in every
\* insertion order, arrays, and objects holding arrays of objects
Payloads ==
  LET Numbers == {0 - 1, 0, 120} \cup 1..MaxNumber
      Strings ==
        { <<>>, <<"a">>, <<"\"">>, <<"\\", "n">>, <<"LF">>, <<"e-acute", "=">>, <<"euro">>,
          <<"hi-surrogate">>, <<"{", "}", ",">> }
      Atoms ==
        {JNull, JBool(TRUE), JBool(FALSE)} \cup { JNum(n) : n \in Numbers }
          \cup { JStr(s) : s \in Strings }
      \* the values put inside arrays and objects
      Leaves == {JNull, JNum(0 - 1), JStr(<<"\"">>)}
      PropertyNames == { <<"a">>, <<"B">>, <<"1", "0">>, <<"9">>, <<"e-acute">> }
      Flat ==
        { JObj(<<Prop(k, x)>>) : k \in PropertyNames, x \in Atoms }
          \cup { JObj(<<Prop(kk[1], x), Prop(kk[2], y)>>) :
                   kk \in { p \in PropertyNames \X PropertyNames : p[1] # p[2] },
                   x \in Leaves, y \in Leaves }
      \* the objects put inside arrays and objects
      Small ==
        { o \in Flat : /\ Len(o.keys) = 2
                       /\ o.items[1] = JNull
                       /\ {o.keys[1], o.keys[2]} = {<<"a">>, <<"B">>} }
      Accepts == <<"a", "c", "c", "e", "p", "t", "s">>
  IN
  Atoms \cup Flat
    \cup {JArr(<<>>), JObj(<<>>)}
    \cup { JArr(<<x>>) : x \in Atoms }
    \cup { JArr(<<x, y>>) : x \in Leaves, y \in Leaves }
    \cup { JArr(<<o, x>>) : o \in Small, x \in Leaves }
    \cup { JObj(<<Prop(<<"x">>, o), Prop(Accepts, JArr(<<p>>))>>) : o \in Small, p \in Small }
    \cup { JObj(<<Prop(Accepts, JArr(<<p>>)), Prop(<<"x">>, o)>>) : o \in Small, p \in Small }

\* the payloads that differ from payload in the insertion order of properties only
Twins(o) == { x \in Payloads : StructEq(o, x) }

\* main at rest
SessionIdle ==
  /\ env = Env(Unset, Unset, Unset)
  /\ BALANCE_FLOOR = ParseBalanceFloor(Unset)
  /\ SESSION_CAP_DROPS = ParseSessionCap(Unset)
  /\ MAX_SINGLE_DROPS = ParseMaxSingle(Unset)
  /\ prevCount = 0
  /\ lifetimeDrops = Num(0)
  /\ startBalance = Num(WARN_BALANCE)
  /\ facilitatorOk = TRUE
  /\ startup = <<>>
  /\ idx = 1
  /\ currentBalance = Num(0)
  /\ req = NoTerms
  /\ filled = NoTx
  /\ transactions = <<>>
  /\ successCount = 0
  /\ sessionDropsSpent = Num(0)
  /\ x402Agent = <<>>
  /\ validatedLedger = LedgerHeight
  /\ calls = <<>>
  /\ challenges = <<>>
  /\ signed = <<>>
  /\ sent = <<>>

InitCodec ==
  /\ SessionIdle
  /\ BinderIdle
  /\ GuardIdle
  /\ VaultIdle
  /\ ServerIdle
  /\ pc = "encode"
  /\ payload \in Payloads
  /\ twin \in Twins(payload)
  /\ header = <<>>
  /\ twinHeader = <<>>
  /\ decoded = JNull

\* the sender: encodeX402Header of the payload, and of its twin
Encode ==
  /\ pc = "encode"
  /\ header' = encodeX402Header(payload)
  /\ twinHeader' = encodeX402Header(twin)
  /\ pc' = "decode"
  /\ UNCHANGED <<session, binder, guard, vault, server, payload, twin, decoded>>

\* the receiver: decodeX402Header of the header
Decode ==
  /\ pc = "decode"
  /\ decoded' = decodeX402Header(header)
  /\ pc' = "decoded"
  /\ UNCHANGED <<session, binder, guard, vault, server, payload, twin, header, twinHeader>>

NextCodec == Encode \/ Decode

SpecCodec == InitCodec /\ [][NextCodec]_vars

\* C18: decodeX402Header(encodeX402Header(v)) is structurally equal to v.
C18_RoundTrip == pc = "decoded" => StructEq(decoded, payload)

\* a payload with an object inside an array comes back with its properties in
\* another order
C18_Witness ==
  /\ pc = "decoded"
  /\ payload.t = "object"
  /\ decoded # payload
  /\ \E i \in DOMAIN payload.items : payload.items[i].t = "array"

\* every object of the value lists its properties in ascending order of keys
RECURSIVE KeysAscend(_)
KeysAscend(x) ==
  IF x.t = "array" THEN \A i \in DOMAIN x.items : KeysAscend(x.items[i])
  ELSE IF x.t = "object"
  THEN /\ \A i \in DOMAIN x.items : KeysAscend(x.items[i])
       /\ \A i \in DOMAIN x.keys : \A j \in DOMAIN x.keys :
            i < j => StringLess(x.keys[i], x.keys[j])
  ELSE x.t # "thrown"

\* C19: two payloads that differ only in the insertion order of properties,
\* at any level, encode to the same header, and the header lists the keys of
\* every object in sorted order.
C19_KeyOrderInvariance ==
  /\ pc # "encode" => header = twinHeader
  /\ pc = "decoded" => KeysAscend(decoded)

\* a payload whose properties are not in sorted order, at the top and inside an
\* array, and a twin in yet another order
C19_Witness ==
  /\ pc = "decoded"
  /\ twin # payload
  /\ ~KeysAscend(payload)
  /\ ~KeysAscend(twin)
  /\ \E i \in DOMAIN payload.items :
       payload.items[i].t = "array" /\ ~KeysAscend(payload.items[i])

\* ---------------------------------------------------------------------------
\* The invoice binding computed for two payments
\* ---------------------------------------------------------------------------

\* longest of the short invoice ids
MaxIdLength == 2

\* the invoice ids of two payments: an id as the testnet server issues them,
\* one differing in the last place, and short ids over a character of one
\* UTF-8 byte and one of two
InitBinder ==
  LET IssuedId ==
        <<"3", "F", "2", "5", "0", "4", "E", "0", "4", "F", "8", "9", "4", "1", "D", "3",
          "9", "A", "0", "C", "0", "3", "0", "5", "E", "8", "2", "C", "3", "3", "0", "1">>
      InvoiceIds ==
        UNION { [1..n -> {"a", "e-acute"}] : n \in 1..MaxIdLength }
          \cup {IssuedId, [IssuedId EXCEPT ![Len(IssuedId)] = "2"]}
  IN
  /\ SessionIdle
  /\ CodecIdle
  /\ GuardIdle
  /\ VaultIdle
  /\ ServerIdle
  /\ pc = "bind"
  /\ invoices \in InvoiceIds \X InvoiceIds
  /\ bindings = <<>>

\* x402Request computes the binding of the next payment
Bind ==
  /\ pc = "bind"
  /\ bindings' = Append(bindings, Binding(invoices[Len(bindings) + 1]))
  /\ pc' = IF Len(bindings') = Len(invoices) THEN "bound" ELSE "bind"
  /\ UNCHANGED <<session, codec, guard, vault, server, invoices>>

NextBinder == Bind

SpecBinder == InitBinder /\ [][NextBinder]_vars

\* C20: MemoData and InvoiceID depend on the invoice id only; MemoData is
\* uppercase hex whose decoding gives the UTF-8 bytes of the id, hence the id;
\* two distinct ids have distinct MemoData and distinct InvoiceID digests.
C20_BindingIsFunctionOfId ==
  LET UpperHexDigits ==
        <<"0", "1", "2", "3", "4", "5", "6", "7", "8", "9", "A", "B", "C", "D", "E", "F">>
      IsUpperHex(text) ==
        \A i \in DOMAIN text : \E d \in DOMAIN UpperHexDigits : UpperHexDigits[d] = text[i]
      Value(ch) == (CHOOSE d \in DOMAIN UpperHexDigits : UpperHexDigits[d] = ch) - 1
      \* the bytes written as pairs of uppercase hex digits
      HexDecoded(text) ==
        [i \in 1..(Len(text) \div 2) |-> Value(text[2 * i - 1]) * 16 + Value(text[2 * i])]
  IN
  /\ \A i \in DOMAIN bindings :
       LET b == bindings[i] IN
       /\ b.invoiceId = invoices[i]
       /\ IsUpperHex(b.memoData)
       /\ Len(b.memoData) % 2 = 0
       /\ FromUtf8(HexDecoded(b.memoData)) = b.invoiceId
       /\ IsUpperHex(b.invoiceHash)
       /\ Len(b.invoiceHash) = 64
  /\ \A i \in DOMAIN bindings : \A j \in DOMAIN bindings :
       IF bindings[i].invoiceId = bindings[j].invoiceId
       THEN /\ bindings[i].memoData = bindings[j].memoData
            /\ bindings[i].invoiceHash = bindings[j].invoiceHash
       ELSE /\ bindings[i].memoData # bindings[j].memoData
            /\ bindings[i].invoiceHash # bindings[j].invoiceHash

\* two payments whose ids differ in their last character only, one of them
\* with a character of two UTF-8 bytes
C20_Witness ==
  /\ pc = "bound"
  /\ invoices[1] = <<"a", "e-acute">>
  /\ invoices[2] = <<"a", "a">>
  /\ bindings[1].memoData = <<"6", "1", "C", "3", "A", "9">>
  /\ bindings[1].invoiceHash # bindings[2].invoiceHash

\* ---------------------------------------------------------------------------
\* One signed transfer, one invoice, one request
\* ---------------------------------------------------------------------------

\* C21: every signed transaction carries a MemoData and an InvoiceID, both
\* those of the invoiceId of the one challenge received for its resource; every
\* PAYMENT-SIGNATURE request carries a transaction signed for its resource
\* together with that same invoiceId and goes to the URL the challenge came
\* from; no signed transaction is carried by two requests.
C21_OneInvoicePerSignedTransfer ==
  /\ \A k \in DOMAIN signed :
       LET s == signed[k] IN
       /\ Cardinality(ChallengesOf(s.i)) = 1
       /\ \A c \in ChallengesOf(s.i) :
            LET invoiceId == challenges[c].res1.terms.invoiceId IN
            /\ invoiceId # <<>>
            /\ s.tx.MemoData # <<>>
            /\ s.tx.MemoData = MemoData(invoiceId)
            /\ Len(s.tx.InvoiceID) = 64
            /\ \E b \in IssuedBindings :
                 b.invoiceId = invoiceId /\ b.invoiceHash = s.tx.InvoiceID
  /\ \A j \in DOMAIN sent :
       LET r == sent[j] IN
       /\ r.url = ENDPOINTS[r.i]
       /\ \E k \in DOMAIN signed :
            signed[k].i = r.i /\ signed[k].tx = r.header.payload.signedTxBlob
       /\ \A c \in ChallengesOf(r.i) :
            r.header.payload.invoiceId = challenges[c].res1.terms.invoiceId
       /\ \A other \in DOMAIN sent :
            other # j =>
              sent[other].header.payload.signedTxBlob # r.header.payload.signedTxBlob

\* two resources paid for, each with the invoice id of its own challenge
C21_Witness ==
  /\ Len(sent) = 2
  /\ sent[1].i = 1 /\ sent[2].i = 2
  /\ sent[1].header.payload.invoiceId = <<"3", "F">>
  /\ sent[2].header.payload.invoiceId = <<"3", "E">>
  /\ sent[1].header.payload.signedTxBlob.MemoData = <<"3", "3", "4", "6">>
  /\ sent[2].header.payload.signedTxBlob.MemoData = <<"3", "3", "4", "5">>
  /\ Len(signed) = 2

\* ---------------------------------------------------------------------------
\* The guardrail checks met by one offer under two session caps
\* ---------------------------------------------------------------------------

\* number of session caps tried, 3000 drops apart
CapSteps == 3

\* what a resource's guardrail checks see: the offered amount, the balance
\* read for the resource, the session's spend so far and the three settings;
\* an offer at, under and over the default per-transaction max, a balance at
\* and under the default floor, after no, one or two payments of 4000 drops
InitGuard ==
  LET SessionCaps == { Num(3000 * k) : k \in 1..CapSteps }
      Trial(amount, balance, spent, floor, cap, max) ==
        [amount |-> amount, balance |-> balance, spent |-> spent, floor |-> floor,
         cap |-> cap, max |-> max]
      Trials ==
        { Trial(a, Num(b), Num(4000 * n), ParseBalanceFloor(Unset), c, ParseMaxSingle(Unset)) :
            a \in { <<"4", "0", "0", "0">>, <<"5", "0", "0", "0">>, <<"6", "0", "0", "0">> },
            b \in 10..11, n \in 0..2, c \in SessionCaps }
  IN
  /\ SessionIdle
  /\ CodecIdle
  /\ BinderIdle
  /\ VaultIdle
  /\ ServerIdle
  /\ pc = "evaluate"
  /\ trials \in { pair \in Trials \X Trials :
                    pair[2] = [pair[1] EXCEPT !.cap = pair[2].cap] }
  /\ verdicts = <<>>

\* the checks of main and x402Request meet the next trial
Evaluate ==
  /\ pc = "evaluate"
  /\ LET t == trials[Len(verdicts) + 1] IN
     verdicts' = Append(verdicts,
                        GuardrailVerdict(t.amount, t.balance, t.spent, t.floor, t.cap, t.max))
  /\ pc' = IF Len(verdicts') = Len(trials) THEN "evaluated" ELSE "evaluate"
  /\ UNCHANGED <<session, codec, binder, vault, server, trials>>

NextGuard == Evaluate

SpecGuard == InitGuard /\ [][NextGuard]_vars

\* C22: with the offer, the spend so far, the balance, the floor and the
\* per-transaction max the same, a denial under one session cap comes with a
\* denial under every lower cap.
C22_DenialMonotoneInCap ==
  pc = "evaluated" =>
    (verdicts[1] # "" /\ JsLt(trials[2].cap, trials[1].cap) => verdicts[2] # "")

\* an offer of 4000 drops after 4000 spent is denied under a cap of 6000 and
\* so under one of 3000, and allowed under one of 9000
C22_Witness ==
  /\ pc = "evaluated"
  /\ trials[1].cap = Num(6000) /\ trials[2].cap = Num(3000)
  /\ trials[1].amount = <<"4", "0", "0", "0">> /\ trials[1].spent = Num(4000)
  /\ trials[1].balance = Num(11)
  /\ verdicts = <<"session spending cap reached", "session spending cap reached">>

\* the drops offered in a trial, and which checks it fails
TrialDrops(t) == DigitsValue(StripNonDigits(t.amount))

OverMaxSingle(t) == TrialDrops(t) > t.max[1]

OverSessionCap(t) == t.spent[1] + TrialDrops(t) > t.cap[1]

UnderFloor(t) == t.balance[1] < t.floor[1]

\* C23 as stated: per-transaction max, session cap, balance floor are checked
\* in this order and the reason recorded is that of the first to fail.
C23_ReasonOfFirstMaxCapFloor ==
  \A i \in DOMAIN verdicts :
    LET t == trials[i] IN
    verdicts[i] = IF OverMaxSingle(t) THEN "exceeds per-tx max"
                  ELSE IF OverSessionCap(t) THEN "session spending cap reached"
                  ELSE IF UnderFloor(t) THEN "balance below floor"
                  ELSE ""

\* C23: balance floor, per-transaction max, session cap are checked in this
\* order and the reason recorded is that of the first to fail.
C23_ReasonOfFirstFloorMaxCap ==
  \A i \in DOMAIN verdicts :
    LET t == trials[i] IN
    verdicts[i] = IF UnderFloor(t) THEN "balance below floor"
                  ELSE IF OverMaxSingle(t) THEN "exceeds per-tx max"
                  ELSE IF OverSessionCap(t) THEN "session spending cap reached"
                  ELSE ""

\* an offer failing all three checks is denied for the floor, and one failing
\* the max and the cap for the max
C23_Witness ==
  /\ pc = "evaluated"
  /\ OverMaxSingle(trials[1]) /\ OverSessionCap(trials[1]) /\ UnderFloor(trials[1])
  /\ verdicts[1] = "balance below floor"
  /\ trials[2].cap = Num(3000)
  /\ verdicts[2] = "balance below floor"

\* C24: each check denies by itself: an offer failing the per-transaction max
\* alone, the session cap alone or the balance floor alone is denied, for that
\* reason, and an offer failing any check is denied.
C24_EachCheckDeniesAlone ==
  \A i \in DOMAIN verdicts :
    LET t == trials[i] IN
    /\ OverMaxSingle(t) \/ OverSessionCap(t) \/ UnderFloor(t) => verdicts[i] # ""
    /\ OverMaxSingle(t) /\ ~OverSessionCap(t) /\ ~UnderFloor(t)
         => verdicts[i] = "exceeds per-tx max"
    /\ ~OverMaxSingle(t) /\ OverSessionCap(t) /\ ~UnderFloor(t)
         => verdicts[i] = "session spending cap reached"
    /\ ~OverMaxSingle(t) /\ ~OverSessionCap(t) /\ UnderFloor(t)
         => verdicts[i] = "balance below floor"

\* a first offer of 6000 drops is denied for the max alone under a cap of 9000
\* drops with the balance at the floor
C24_Witness ==
  /\ pc = "evaluated"
  /\ trials[2].amount = <<"6", "0", "0", "0">>
  /\ trials[2].spent = Num(0) /\ trials[2].cap = Num(9000) /\ trials[2].balance = Num(11)
  /\ OverMaxSingle(trials[2]) /\ ~OverSessionCap(trials[2]) /\ ~UnderFloor(trials[2])
  /\ verdicts[2] = "exceeds per-tx max"

\* ---------------------------------------------------------------------------
\* The outcome of a signed transfer
\* ---------------------------------------------------------------------------

\* C30: a resource a transfer was signed for has one signature; once its
\* iteration is over it has exactly one record, SUCCESS or FAILED; when the
\* retried request was not delivered or was refused, the record is FAILED.
C30_SignedTransferHasOutcome ==
  \A i \in DOMAIN ENDPOINTS :
    CallsOf("sign", i) # {} =>
      /\ Cardinality(CallsOf("sign", i)) = 1
      /\ Cardinality({ k \in DOMAIN signed : signed[k].i = i }) = 1
      /\ i \in Finished =>
           /\ Cardinality(RecordsOf(i)) = 1
           /\ \A r \in RecordsOf(i) : transactions[r].status \in {"SUCCESS", "FAILED"}
      /\ \A j \in DOMAIN sent :
           (sent[j].i = i /\ ~sent[j].delivered) =>
             /\ i \in Finished
             /\ \A r \in RecordsOf(i) : transactions[r].status = "FAILED"

\* the first resource's payment is refused, the second's request is not
\* delivered: two signatures, two FAILED records
C30_Witness ==
  /\ Len(signed) = 2 /\ Len(sent) = 2
  /\ ~sent[1].delivered /\ ~sent[2].delivered
  /\ Len(transactions) = 2
  /\ transactions[1].status = "FAILED" /\ transactions[2].status = "FAILED"
  /\ idx = 3

\* ---------------------------------------------------------------------------
\* The end of a session: the x402_agent block and the data file
\* ---------------------------------------------------------------------------

\* the data file has no x402_agent block, or the block of a previous run
InitPersist ==
  \E existingAgent \in { [payments_sent |-> 0, lifetime_drops_spent |-> Num(0)],
                         [payments_sent |-> 2, lifetime_drops_spent |-> Num(5000)] } :
    StartupWith(Env(Unset, <<"4", "0", "0", "0">>, <<"4", "0", "0", "0">>), existingAgent)

NextPersist ==
  \/ BalanceFails
  \/ BalanceChecked
  \/ Challenge
  \/ AutofillFails
  \/ Autofilled
  \/ ServerInfoFails
  \/ Sign
  \/ Retry
  \/ FinalizeFails
  \/ Finalize

\* main is one async function: after every await settles it runs on
SpecPersist == InitPersist /\ [][NextPersist]_vars /\ WF_vars(NextPersist)

\* C28: every session that enters the resource loop eventually hands one
\* session record to persistence, whatever outcomes the resources had.
C28_SessionRecordHandedOver == (pc = "balance" /\ idx = 1) ~> (pc = "done")

\* C29: the lifetime_drops_spent persisted at the end of a run is the value
\* loaded from the prior state plus this run's session spend, and is never
\* smaller than the loaded value.
C29_LifetimeSpentGrows ==
  pc = "done" =>
    /\ x402Agent.lifetime_drops_spent = JsAdd(lifetimeDrops, x402Agent.session_drops_spent)
    /\ JsLe(lifetimeDrops, x402Agent.lifetime_drops_spent)

\* ---------------------------------------------------------------------------
\* The wallet seed: where both agents put it
\* ---------------------------------------------------------------------------

\* seeds a wallet can be made from, and the classic address of each
Seeds == {"sEdA", "sEdB", "sEdC"}

Address(seed) ==
  CASE seed = "sEdA" -> "rA"
    [] seed = "sEdB" -> "rB"
    [] seed = "sEdC" -> "rC"

DATA_FILE == "dashboard-data.json"

WALLET_FILE == "scripts/x402-wallet.json"

\* a JSON file as the set of its <<property path, value>> pairs; the value at a
\* path, "" when the path is absent
Field(content, path) ==
  IF \E p \in content : p[1] = path
  THEN (CHOOSE p \in content : p[1] = path)[2]
  ELSE ""

\* testnet main: the walletState object of a first run
NewWalletState(aw, pw) ==
  { <<"network", "XRPL TESTNET">>,
    <<"agent.seed", aw>>, <<"agent.address", Address(aw)>>,
    <<"provider.seed", pw>>, <<"provider.address", Address(pw)>> }

\* either agent starts: the environment of the mainnet agent holds a seed or
\* something that is not one; the wallet file of the testnet agent is absent,
\* lacks the provider's seed, or is the file of an earlier run
InitSecrets ==
  /\ SessionIdle
  /\ CodecIdle
  /\ BinderIdle
  /\ GuardIdle
  /\ ServerIdle
  /\ walletState = {}
  /\ isFirstRun = FALSE
  /\ logs = {}
  /\ written = {}
  /\ pushed = {}
  /\ \/ /\ pc = "mainnet_wallet"
        /\ AGENT_SEED \in Seeds \cup {"not-a-seed"}
        /\ files = [f \in {DATA_FILE, WALLET_FILE} |-> {}]
     \/ /\ pc = "testnet_wallets"
        /\ AGENT_SEED = ""
        /\ \E stored \in {{}} \cup { {<<"agent.seed", aw>>} : aw \in Seeds }
                         \cup { NewWalletState(aw, pw) : aw \in Seeds, pw \in Seeds } :
             files = [f \in {DATA_FILE, WALLET_FILE} |->
                        IF f = WALLET_FILE THEN stored ELSE {}]

\* mainnet main: Wallet.fromSeed(AGENT_SEED), then the address is logged
MainnetWallet ==
  /\ pc = "mainnet_wallet"
  /\ IF AGENT_SEED \in Seeds
     THEN /\ logs' = logs \cup {Address(AGENT_SEED)}
          /\ pc' = "mainnet_persist"
     ELSE /\ logs' = logs \cup {"Invalid X402_MAINNET_SEED"}
          /\ pc' = "exit"
  /\ UNCHANGED <<session, codec, binder, guard, server, AGENT_SEED, walletState, isFirstRun,
                 files, written, pushed>>

\* mainnet main after the loop: the x402_agent block goes into the data file,
\* or the data file cannot be read
MainnetPersist ==
  /\ pc = "mainnet_persist"
  /\ \E readable \in BOOLEAN :
       IF readable
       THEN /\ files' = [files EXCEPT ![DATA_FILE] =
                           {<<"x402_agent.agent_address", Address(AGENT_SEED)>>}]
            /\ written' = written \cup {DATA_FILE}
            /\ logs' = logs \cup {"Wrote x402_agent block to dashboard-data.json"}
            /\ pc' = "mainnet_push"
       ELSE /\ pc' = "exit"
            /\ UNCHANGED <<files, written, logs>>
  /\ UNCHANGED <<session, codec, binder, guard, server, AGENT_SEED, walletState, isFirstRun,
                 pushed>>

\* mainnet main: await pushFiles(['dashboard-data.json'], ...)
MainnetPush ==
  /\ pc = "mainnet_push"
  /\ pushed' = pushed \cup {DATA_FILE}
  /\ pc' = "done"
  /\ UNCHANGED <<session, codec, binder, guard, server, AGENT_SEED, walletState, isFirstRun,
                 logs, files, written>>

\* testnet main: loadWallets(), and on a first run Wallet.generate() twice and
\* saveWallets(walletState)
TestnetWallets ==
  /\ pc = "testnet_wallets"
  /\ LET raw == files[WALLET_FILE] IN
     IF Field(raw, "agent.seed") # "" /\ Field(raw, "provider.seed") # ""
     THEN /\ walletState' = raw
          /\ UNCHANGED <<isFirstRun, files, written, logs>>
     ELSE \E aw \in Seeds, pw \in Seeds :
            /\ walletState' = NewWalletState(aw, pw)
            /\ isFirstRun' = TRUE
            /\ files' = [files EXCEPT ![WALLET_FILE] = walletState']
            /\ written' = written \cup {WALLET_FILE}
            /\ logs' = logs \cup {"No wallet state", "Wallet state saved"}
  /\ pc' = "testnet_open"
  /\ UNCHANGED <<session, codec, binder, guard, server, AGENT_SEED, pushed>>

\* testnet main: Wallet.fromSeed for both wallets, the addresses are logged
TestnetOpen ==
  /\ pc = "testnet_open"
  /\ logs' = logs \cup { Address(Field(walletState, "agent.seed")),
                          Address(Field(walletState, "provider.seed")) }
  /\ pc' = "testnet_persist"
  /\ UNCHANGED <<session, codec, binder, guard, server, AGENT_SEED, walletState, isFirstRun,
                 files, written, pushed>>

\* testnet main at its end: the x402_agent block goes into the data file, or
\* the data file cannot be read
TestnetPersist ==
  /\ pc = "testnet_persist"
  /\ \E readable \in BOOLEAN :
       IF readable
       THEN /\ files' = [files EXCEPT ![DATA_FILE] =
                           { <<"x402_agent.agent_address",
                               Address(Field(walletState, "agent.seed"))>>,
                             <<"x402_agent.provider_address",
                               Address(Field(walletState, "provider.seed"))>> }]
            /\ written' = written \cup {DATA_FILE}
            /\ logs' = logs \cup {"Wrote x402_agent to dashboard-data.json"}
            /\ pc' = "testnet_push"
       ELSE /\ pc' = "exit"
            /\ UNCHANGED <<files, written, logs>>
  /\ UNCHANGED <<session, codec, binder, guard, server, AGENT_SEED, walletState, isFirstRun,
                 pushed>>

\* testnet main: filesToPush is the data file and, on a first run, the wallet
\* file; await pushFiles(filesToPush, ...)
TestnetPush ==
  /\ pc = "testnet_push"
  /\ pushed' = pushed \cup {DATA_FILE} \cup (IF isFirstRun THEN {WALLET_FILE} ELSE {})
  /\ pc' = "done"
  /\ UNCHANGED <<session, codec, binder, guard, server, AGENT_SEED, walletState, isFirstRun,
                 logs, files, written>>

NextSecrets ==
  \/ MainnetWallet
  \/ MainnetPersist
  \/ MainnetPush
  \/ TestnetWallets
  \/ TestnetOpen
  \/ TestnetPersist
  \/ TestnetPush

SpecSecrets == InitSecrets /\ [][NextSecrets]_vars

\* C25: the seed is held only in memory: neither agent writes a seed to a log,
\* to a file, or hands a file holding a seed to the publish step.
C25_SeedOnlyInMemory ==
  LET held == ({AGENT_SEED} \cup { p[2] : p \in { q \in walletState :
                                       q[1] \in {"agent.seed", "provider.seed"} } })
              \ {""}
  IN /\ logs \cap held = {}
     /\ \A f \in written \cup pushed : \A p \in files[f] : p[2] \notin held

\* ---------------------------------------------------------------------------
\* The local x402 server of the testnet agent
\* ---------------------------------------------------------------------------

\* number of requests the server receives
MaxRequests == 3

\* a request handler: what the request carried, the await the handler is
\* suspended at ("settle": fetch of /settle, "json": settleRes.json(), "end":
\* answered), the invoice id issued by its 402, the facilitator's answer and
\* the status written
Handler(sig, invoiceId, blob, at, issued, status) ==
  [sig |-> sig, invoiceId |-> invoiceId, blob |-> blob, at |-> at, issued |-> issued,
   outcome |-> "", status |-> status]

\* requests a client may send: another path, no PAYMENT-SIGNATURE header, a
\* header that does not decode, or a decodable header naming an issued or an
\* unknown invoice and carrying one of two signed transactions
Requests ==
  { Handler("other-path", <<>>, "", "new", <<>>, 0),
    Handler("none", <<>>, "", "new", <<>>, 0),
    Handler("garbage", <<>>, "", "new", <<>>, 0) }
  \cup { Handler("signed", id, blob, "new", <<>>, 0) :
           id \in { IssuedInvoiceIds[k] : k \in DOMAIN IssuedInvoiceIds } \cup {<<"F", "F">>},
           blob \in {"tx1", "tx2"} }

\* variant: every invoice id is taken for a pending one
UnknownInvoiceNever(invoiceId, pending) == FALSE

\* if (!requirements), requirements being pendingInvoices.get(invoiceId)
UnknownInvoice(invoiceId, pending) == invoiceId \notin pending

\* startX402Server: the Map is empty and the server listens
InitServer ==
  /\ SessionIdle
  /\ CodecIdle
  /\ BinderIdle
  /\ GuardIdle
  /\ VaultIdle
  /\ pc = "listening"
  /\ pendingInvoices = {}
  /\ handlers = <<>>
  /\ settlements = <<>>

\* the handler runs up to its first await: 404, a 402 with a fresh invoice,
\* 500 when the header does not decode, 402 for an unknown invoice, or the
\* /settle call is sent
Receive ==
  /\ pc = "listening"
  /\ Len(handlers) < MaxRequests
  /\ \E request \in Requests :
       LET issuedSoFar == Cardinality({ r \in DOMAIN handlers : handlers[r].issued # <<>> }) IN
       IF request.sig = "other-path"
       THEN /\ handlers' = Append(handlers, [request EXCEPT !.at = "end", !.status = 404])
            /\ UNCHANGED pendingInvoices
       ELSE IF request.sig = "none"
       THEN /\ issuedSoFar < Len(IssuedInvoiceIds)
            /\ LET invoiceId == IssuedInvoiceIds[issuedSoFar + 1] IN
               /\ pendingInvoices' = pendingInvoices \cup {invoiceId}
               /\ handlers' = Append(handlers, [request EXCEPT !.at = "end", !.status = 402,
                                                               !.issued = invoiceId])
       ELSE IF request.sig = "garbage"
       THEN /\ handlers' = Append(handlers, [request EXCEPT !.at = "end", !.status = 500])
            /\ UNCHANGED pendingInvoices
       ELSE IF UnknownInvoice(request.invoiceId, pendingInvoices)
       THEN /\ handlers' = Append(handlers, [request EXCEPT !.at = "end", !.status = 402])
            /\ UNCHANGED pendingInvoices
       ELSE /\ handlers' = Append(handlers, [request EXCEPT !.at = "settle"])
            /\ UNCHANGED pendingInvoices
  /\ UNCHANGED <<session, codec, binder, guard, vault, pc, settlements>>

\* variant: a failed settlement is not refused
SettlementFailedNever(outcome) == FALSE

\* if (!settlement.success)
SettlementFailed(outcome) == outcome # "success"

\* await fetch(FACILITATOR_URL/settle): the fetch rejects, or the facilitator
\* answers with success, with a failure, or with a body that is not JSON; the
\* ledger applies a signed transaction once
SettleAnswered ==
  /\ pc = "listening"
  /\ \E r \in DOMAIN handlers :
       /\ handlers[r].at = "settle"
       /\ \E outcome \in {"reject", "success", "failure", "garbage"} :
            /\ outcome = "success" =>
                 \A k \in DOMAIN settlements :
                   settlements[k].outcome = "success" => settlements[k].blob # handlers[r].blob
            /\ settlements' = Append(settlements,
                                     [r |-> r, invoiceId |-> handlers[r].invoiceId,
                                      blob |-> handlers[r].blob, outcome |-> outcome])
            /\ handlers' = [handlers EXCEPT ![r] =
                              IF outcome = "reject"
                              THEN [@ EXCEPT !.at = "end", !.outcome = outcome, !.status = 500]
                              ELSE [@ EXCEPT !.at = "json", !.outcome = outcome]]
  /\ UNCHANGED <<session, codec, binder, guard, vault, pc, pendingInvoices>>

\* await settleRes.json() and the rest of the handler: 500 when the body does
\* not parse, 402 when the settlement failed, else the invoice is deleted and
\* the resource is released
SettlementParsed ==
  /\ pc = "listening"
  /\ \E r \in DOMAIN handlers :
       /\ handlers[r].at = "json"
       /\ IF handlers[r].outcome = "garbage"
          THEN /\ handlers' = [handlers EXCEPT ![r] = [@ EXCEPT !.at = "end", !.status = 500]]
               /\ UNCHANGED pendingInvoices
          ELSE IF SettlementFailed(handlers[r].outcome)
          THEN /\ handlers' = [handlers EXCEPT ![r] = [@ EXCEPT !.at = "end", !.status = 402]]
               /\ UNCHANGED pendingInvoices
          ELSE /\ pendingInvoices' = pendingInvoices \ {handlers[r].invoiceId}
               /\ handlers' = [handlers EXCEPT ![r] = [@ EXCEPT !.at = "end", !.status = 200]]
  /\ UNCHANGED <<session, codec, binder, guard, vault, pc, settlements>>

NextServer ==
  \/ Receive
  \/ SettleAnswered
  \/ SettlementParsed

SpecServer == InitServer /\ [][NextServer]_vars

\* C26: each invoice id issued by the server is redeemable at most once: under
\* any interleaving of requests carrying the same id the server answers 200
\* for it at most once and settles it successfully at most once.
C26_InvoiceRedeemedOnce ==
  \A k \in DOMAIN IssuedInvoiceIds :
    /\ Cardinality({ r \in DOMAIN handlers :
                       handlers[r].invoiceId = IssuedInvoiceIds[k] /\ handlers[r].status = 200 }) <= 1
    /\ Cardinality({ j \in DOMAIN settlements :
                       /\ settlements[j].invoiceId = IssuedInvoiceIds[k]
                       /\ settlements[j].outcome = "success" }) <= 1

\* C27: the server answers 200 only to a request with a payment signature
\* whose invoice it had issued and for which the facilitator had reported
\* success; a request without a signature, with an unknown invoice, or whose
\* settlement failed is never answered 200.
C27_ReleasedOnlyAfterSettlement ==
  \A r \in DOMAIN handlers :
    /\ handlers[r].status = 200 =>
         /\ handlers[r].sig = "signed"
         /\ \E q \in 1..(r - 1) : handlers[q].issued = handlers[r].invoiceId
         /\ \E j \in DOMAIN settlements :
              /\ settlements[j].r = r
              /\ settlements[j].invoiceId = handlers[r].invoiceId
              /\ settlements[j].outcome = "success"
    /\ handlers[r].at = "end" =>
         /\ handlers[r].sig = "none" => handlers[r].status = 402
         /\ (\A q \in 1..(r - 1) : handlers[q].issued # handlers[r].invoiceId) =>
              handlers[r].status # 200
         /\ (\E j \in DOMAIN settlements :
               settlements[j].r = r /\ settlements[j].outcome # "success") =>
              handlers[r].status # 200

C27_Witness ==
  /\ Len(handlers) = 3
  /\ handlers[1].issued = IssuedInvoiceIds[1]
  /\ handlers[2].invoiceId = IssuedInvoiceIds[1] /\ handlers[2].outcome = "failure"
  /\ handlers[2].status = 402
  /\ handlers[3].invoiceId = IssuedInvoiceIds[1] /\ handlers[3].status = 200

\* C38: the server calls /settle only for an invoice that is pending at the
\* time of the call; a payment request naming an unknown or redeemed invoice
\* is answered 402 with no facilitator call and the Map unchanged; a failed
\* settlement leaves the invoice pending; a successful one removes exactly
\* that invoice, and a later request naming it is answered 402.
C38_SettleOnlyPending ==
  [][ /\ Len(handlers') > Len(handlers) =>
           LET arrived == handlers'[Len(handlers')] IN
           /\ arrived.at = "settle" => arrived.invoiceId \in pendingInvoices
           /\ (/\ arrived.sig = "signed"
               /\ \/ arrived.invoiceId \notin pendingInvoices
                  \/ \E q \in DOMAIN handlers :
                       /\ handlers[q].invoiceId = arrived.invoiceId
                       /\ handlers[q].status = 200) =>
                /\ arrived.at = "end"
                /\ arrived.status = 402
                /\ pendingInvoices' = pendingInvoices
                /\ settlements' = settlements
      /\ \A r \in DOMAIN handlers :
           (handlers[r].at = "json" /\ handlers'[r].at = "end") =>
             IF handlers'[r].status = 200
             THEN pendingInvoices' = pendingInvoices \ {handlers[r].invoiceId}
             ELSE pendingInvoices' = pendingInvoices
      /\ Len(settlements') > Len(settlements) =>
           LET call == settlements'[Len(settlements')] IN
           /\ handlers[call.r].at = "settle"
           /\ call.invoiceId = handlers[call.r].invoiceId
    ]_vars

\* an invoice is redeemed by the second request, and the third, naming it
\* again, is refused without a facilitator call
C38_Witness ==
  /\ Len(handlers) = 3
  /\ handlers[1].issued = IssuedInvoiceIds[1]
  /\ handlers[2].invoiceId = IssuedInvoiceIds[1] /\ handlers[2].status = 200
  /\ handlers[3].invoiceId = IssuedInvoiceIds[1] /\ handlers[3].status = 402
  /\ pendingInvoices = {}
  /\ \A j \in DOMAIN settlements : settlements[j].r = 2

\* C36: sessionDropsSpent is a non-negative integer in every state of a
\* session and never decreases, whatever amount a merchant response reports.
C36_SpentNonNegativeAndGrowing ==
  [][ /\ sessionDropsSpent' # NaN
      /\ sessionDropsSpent'[1] >= 0
      /\ JsLe(sessionDropsSpent, sessionDropsSpent')
    ]_vars

\* C34: whenever the retried request is answered 200 the resource is recorded
\* as SUCCESS, whatever the body and the PAYMENT-RESPONSE header hold; any
\* other answer is recorded as FAILED.
C34_FinalSuccessIsRecorded ==
  \A j \in DOMAIN sent :
    sent[j].i \in Finished =>
      \A r \in RecordsOf(sent[j].i) :
        transactions[r].status = (IF sent[j].delivered THEN "SUCCESS" ELSE "FAILED")

\* C35: the requirements echoed as accepted in the PAYMENT-SIGNATURE header
\* are the requirements the server issued in the challenge, field by field.
C35_AcceptedIsAsIssued ==
  \A j \in DOMAIN sent :
    \A k \in DOMAIN challenges :
      challenges[k].i = sent[j].i => sent[j].header.accepted = challenges[k].res1.terms

\* C33: the balance compared against the floor for resource i comes from a
\* query issued after the outcome of resource i-1 was recorded and before the
\* challenge request of resource i; no resource is challenged on a balance
\* read earlier.
C33_FreshBalancePerResource ==
  \A i \in DOMAIN ENDPOINTS :
    /\ Cardinality(CallsOf("getXrpBalance", i)) <= 1
    /\ \A b \in CallsOf("getXrpBalance", i) :
         /\ \A k \in 1..(b - 1) : calls[k].i < i
         /\ i > 1 => RecordsOf(i - 1) # {}
         /\ (i = idx /\ pc \in {"challenge", "autofill", "server_info", "retry"}) =>
              currentBalance = calls[b].num
         /\ (\E r \in RecordsOf(i) : transactions[r].status = "SKIPPED"
                                        /\ transactions[r].detail = "balance below floor")
              <=> JsLt(calls[b].num, BALANCE_FLOOR)
    /\ \A g \in CallsOf("GET", i) :
         \E b \in CallsOf("getXrpBalance", i) :
           /\ b < g
           /\ \A k \in (b + 1)..(g - 1) : FALSE
           /\ ~JsLt(calls[b].num, BALANCE_FLOOR)

\* three resources, three queries; the third answer is under the floor and
\* halts the session although the first two were not
C33_Witness ==
  /\ pc = "final"
  /\ \E b1 \in CallsOf("getXrpBalance", 1), b2 \in CallsOf("getXrpBalance", 2),
        b3 \in CallsOf("getXrpBalance", 3) :
       /\ calls[b1].num = Num(11)
       /\ calls[b2].num = Num(11)
       /\ calls[b3].num = Num(10)
  /\ CallsOf("GET", 2) # {}
  /\ CallsOf("GET", 3) = {}
  /\ Len(transactions) = 3 /\ transactions[3].status = "SKIPPED"

\* C32: resources are processed one after the other: a challenge request or a
\* signature for a resource is made only when every earlier resource has its
\* outcome recorded, the loop moves on by one resource and only past a
\* recorded outcome, and the total the session-cap check reads is the running
\* total after all earlier outcomes.
C32_StrictlySequential ==
  [][ LET RECURSIVE RunningTotal(_)
          RunningTotal(txs) ==
            IF txs = <<>> THEN Num(0)
            ELSE LET last == txs[Len(txs)] IN
                 IF last.status = "SUCCESS"
                 THEN JsAdd(RunningTotal(SubSeq(txs, 1, Len(txs) - 1)), DropsInt(last.amount_drops))
                 ELSE RunningTotal(SubSeq(txs, 1, Len(txs) - 1))
          Recorded(i) == \A e \in 1..(i - 1) : RecordsOf(e) # {}
      IN
      /\ Len(challenges') > Len(challenges) =>
           LET c == challenges'[Len(challenges')] IN
           /\ c.i = idx
           /\ Recorded(c.i)
           /\ Len(transactions) = c.i - 1
           /\ c.spent = sessionDropsSpent
           /\ c.spent = RunningTotal(transactions)
      /\ Len(signed') > Len(signed) =>
           /\ signed'[Len(signed')].i = idx
           /\ Recorded(idx)
           /\ Len(transactions) = idx - 1
      /\ idx' # idx =>
           /\ idx' = idx + 1
           /\ Len(transactions') = idx
           /\ transactions'[idx].endpoint = ENDPOINTS[idx]
      /\ sessionDropsSpent' # sessionDropsSpent => Len(transactions') = Len(transactions) + 1
      /\ \A k \in DOMAIN calls : \A l \in DOMAIN calls : k < l => calls[k].i <= calls[l].i
    ]_vars

\* the second resource is challenged and signed for on a total that holds the
\* first settlement
C32_Witness ==
  /\ Len(challenges) >= 2
  /\ challenges[2].i = 2
  /\ challenges[2].spent = Num(4000)
  /\ Len(signed) = 2
  /\ signed[2].i = 2

\* C31: for every resource the driver's calls come in the order challenge
\* request, autofill, ledger-height query, signature, retried request, the
\* decode and the guardrail checks lying between the challenge request and
\* autofill and the type check between autofill and the ledger-height query;
\* SUCCESS is recorded only after the signature and the retried request, a
\* guardrail skip only before any signature, and a driver run that has ended
\* has exactly one outcome.
C31_DriverRunOrder ==
  LET Protocol == <<"GET", "autofill", "server_info", "sign", "GET+PAYMENT-SIGNATURE">>
      Ops(i) ==
        LET own == SelectSeq(calls, LAMBDA c : c.i = i /\ c.op # "getXrpBalance")
        IN  [k \in DOMAIN own |-> own[k].op]
  IN \A i \in DOMAIN ENDPOINTS :
       /\ Len(Ops(i)) <= Len(Protocol)
       /\ Ops(i) = SubSeq(Protocol, 1, Len(Ops(i)))
       /\ \A r \in RecordsOf(i) :
            /\ transactions[r].status = "SUCCESS" => Ops(i) = Protocol
            /\ transactions[r].status = "SKIPPED" =>
                 IF transactions[r].detail = "balance below floor" THEN Ops(i) = <<>>
                 ELSE IF transactions[r].detail = "blocked non-Payment transaction type"
                 THEN Ops(i) = <<"GET", "autofill">>
                 ELSE Ops(i) = <<"GET">>
            /\ transactions[r].status = "FAILED" => Ops(i) # <<>>
            /\ transactions[r].status \in {"SUCCESS", "SKIPPED", "FAILED"}
       /\ (i \in Finished /\ Ops(i) # <<>>) => Cardinality(RecordsOf(i)) = 1
       /\ i \notin Finished => RecordsOf(i) = {}

\* a session with a settled, a guarded-out and a rejected resource
C31_Witness ==
  /\ pc = "final"
  /\ Len(transactions) = 3
  /\ transactions[1].status = "SUCCESS"
  /\ transactions[2].status = "SKIPPED"
  /\ transactions[2].detail = "blocked non-Payment transaction type"
  /\ transactions[3].status = "FAILED"
  /\ CallsOf("sign", 3) # {}

\* ---------------------------------------------------------------------------
\* The startup checks of the mainnet agent
\* ---------------------------------------------------------------------------

\* main with the wallet loaded, before client.connect(); the session is run
\* with a session cap and a per-transaction max of 4000 drops
InitStartup ==
  /\ env = Env(Unset, <<"4", "0", "0", "0">>, <<"4", "0", "0", "0">>)
  /\ BALANCE_FLOOR = ParseBalanceFloor(env.X402_BALANCE_FLOOR)
  /\ SESSION_CAP_DROPS = ParseSessionCap(env.X402_SESSION_CAP_DROPS)
  /\ MAX_SINGLE_DROPS = ParseMaxSingle(env.X402_MAX_SINGLE_DROPS)
  /\ prevCount = 0
  /\ lifetimeDrops = Num(0)
  /\ startBalance = NaN
  /\ facilitatorOk = FALSE
  /\ startup = <<>>
  /\ pc = "connect"
  /\ idx = 1
  /\ currentBalance = Num(0)
  /\ req = NoTerms
  /\ filled = NoTx
  /\ transactions = <<>>
  /\ successCount = 0
  /\ sessionDropsSpent = Num(0)
  /\ x402Agent = <<>>
  /\ validatedLedger = LedgerHeight
  /\ calls = <<>>
  /\ challenges = <<>>
  /\ signed = <<>>
  /\ sent = <<>>
  /\ CodecIdle
  /\ BinderIdle
  /\ GuardIdle
  /\ VaultIdle
  /\ ServerIdle

\* await client.connect(): it rejects and the process exits, or main goes on
Connect ==
  /\ pc = "connect"
  /\ \E answer \in {"connected", "refused"} :
       /\ startup' = Append(startup, answer)
       /\ pc' = IF answer = "connected" THEN "startup_balance" ELSE "exit"
  /\ UNCHANGED <<env, BALANCE_FLOOR, SESSION_CAP_DROPS, MAX_SINGLE_DROPS, prevCount,
                 lifetimeDrops, startBalance, facilitatorOk>>
  /\ UNCHANGED <<idx, currentBalance, req, filled, transactions, successCount,
                 sessionDropsSpent, x402Agent, validatedLedger, calls, challenges, signed, sent>>
  /\ UNCHANGED <<codec, binder, guard, vault, server>>

\* variant: no balance is too low to start
BalanceTooLowNever(b) == FALSE

\* if (balance < ERROR_BALANCE)
BalanceTooLow(b) == JsLt(b, Num(ERROR_BALANCE))

\* await checkBalance(...) at startup: it rejects (account not found, or the
\* node fails), or the balance is under ERROR_BALANCE, and the process exits;
\* else main goes on
StartupBalance ==
  /\ pc = "startup_balance"
  /\ \E answer \in {"actNotFound", "throw", "NaN", "1", "2"} :
       LET reply == CASE answer = "1" -> Num(1) [] answer = "2" -> Num(2) [] OTHER -> NaN
           b == CheckBalance(reply)
       IN /\ startup' = Append(startup, answer)
          /\ IF answer \in {"actNotFound", "throw"}
             THEN /\ pc' = "exit"
                  /\ UNCHANGED startBalance
             ELSE /\ startBalance' = b
                  /\ pc' = IF BalanceTooLow(b) THEN "exit" ELSE "facilitator"
  /\ UNCHANGED <<env, BALANCE_FLOOR, SESSION_CAP_DROPS, MAX_SINGLE_DROPS, prevCount,
                 lifetimeDrops, facilitatorOk>>
  /\ UNCHANGED <<idx, currentBalance, req, filled, transactions, successCount,
                 sessionDropsSpent, x402Agent, validatedLedger, calls, challenges, signed, sent>>
  /\ UNCHANGED <<codec, binder, guard, vault, server>>

\* the facilitator's /supported is fetched: the fetch fails or answers with an
\* error status, or the kinds list the network or do not; main goes on
FacilitatorChecked ==
  /\ pc = "facilitator"
  /\ \E answer \in {"facilitator down", "unsupported", "supported"} :
       /\ startup' = Append(startup, answer)
       /\ facilitatorOk' = (answer = "supported")
  /\ pc' = "health"
  /\ UNCHANGED <<env, BALANCE_FLOOR, SESSION_CAP_DROPS, MAX_SINGLE_DROPS, prevCount,
                 lifetimeDrops, startBalance>>
  /\ UNCHANGED <<idx, currentBalance, req, filled, transactions, successCount,
                 sessionDropsSpent, x402Agent, validatedLedger, calls, challenges, signed, sent>>
  /\ UNCHANGED <<codec, binder, guard, vault, server>>

\* the merchant's /health is fetched: the fetch fails or answers with an error
\* status and the process exits; else the data file is read for the totals
\* (there is none) and the loop is entered
MerchantHealth ==
  /\ pc = "health"
  /\ \E answer \in {"healthy", "merchant down"} :
       /\ startup' = Append(startup, answer)
       /\ pc' = IF answer = "healthy" THEN "balance" ELSE "exit"
  /\ UNCHANGED <<env, BALANCE_FLOOR, SESSION_CAP_DROPS, MAX_SINGLE_DROPS, prevCount,
                 lifetimeDrops, startBalance, facilitatorOk>>
  /\ UNCHANGED <<idx, currentBalance, req, filled, transactions, successCount,
                 sessionDropsSpent, x402Agent, validatedLedger, calls, challenges, signed, sent>>
  /\ UNCHANGED <<codec, binder, guard, vault, server>>

NextStartup ==
  \/ Connect
  \/ StartupBalance
  \/ FacilitatorChecked
  \/ MerchantHealth
  \/ BalanceFails
  \/ BalanceChecked
  \/ Challenge
  \/ AutofillFails
  \/ Autofilled
  \/ ServerInfoFails
  \/ Sign
  \/ Retry
  \/ Finalize

SpecStartup == InitStartup /\ [][NextStartup]_vars

\* C37: a failure at startup (the connection is refused, the balance query
\* fails or the account is not found, the balance is under ERROR_BALANCE, the
\* merchant's health check fails) ends the run before any resource is
\* attempted and before anything is persisted; a failed or negative
\* facilitator check does not stop the run.
C37_StartupFailureEndsRun ==
  LET failed == \E k \in DOMAIN startup :
                  startup[k] \in {"refused", "actNotFound", "throw", "NaN", "1", "merchant down"}
  IN /\ failed =>
          /\ pc = "exit"
          /\ startup[Len(startup)] \notin {"connected", "2", "healthy"}
          /\ calls = <<>> /\ challenges = <<>> /\ signed = <<>>
          /\ transactions = <<>> /\ x402Agent = <<>>
     /\ pc = "exit" => failed
     /\ (~failed /\ Len(startup) >= 3) =>
          /\ startup[3] \in {"facilitator down", "unsupported", "supported"}
          /\ facilitatorOk = (startup[3] = "supported")
          /\ pc # "exit"
          /\ pc = "health" \/ Len(startup) = 4
     /\ calls # <<>> =>
          /\ Len(startup) = 4
          /\ startup[1] = "connected" /\ startup[2] = "2" /\ startup[4] = "healthy"
          /\ startup[3] \in {"facilitator down", "unsupported", "supported"}

\* a run whose facilitator check failed has paid for the first resource, and
\* a run whose facilitator does not list the network is being finalized
C37_Witness ==
  /\ startup = <<"connected", "2", "facilitator down", "healthy">>
  /\ ~facilitatorOk
  /\ Len(transactions) >= 1
  /\ transactions[1].status = "SUCCESS"
  /\ pc = "final"

====
